---------------------------- MODULE Spec2Model ----------------------------
(***************************************************************************)
(* Model of the unification kernel, the let-binding levels and the         *)
(* generalization / instantiation helpers of src/types/typechecker.rs.     *)
(*                                                                         *)
(* Type variable ids are the indices of cache.type_bindings; the Rust ids  *)
(* start at 0, the indices of the sequence type_bindings start at 1.       *)
(***************************************************************************)
EXTENDS Integers, Sequences, FiniteSets, TLC

VARIABLES
    type_bindings,   \* cache.type_bindings: id -> Unbound(level, kind) | Bound(type)
    CURRENT_LEVEL,   \* the process-wide level counter
    diagnostics,     \* cache diagnostics, in the order pushed
    visits,          \* the active Definition visits (locals level / previous_level)
    rows,            \* rho -> fields: the Struct types in use, by their `rest of the struct` variable
    pending,         \* the value a caller holds between two calls (a UnificationResult, a GeneralizedType, ...)
    aborted,         \* the process ended by a panic or by exhausting the stack
    ast,             \* the nodes of the program handed to infer_ast, with their typ fields
    definition_infos, \* cache.definition_infos: DefinitionInfoId -> DefinitionInfo
    call_stack,      \* cache.call_stack: the ids of the definitions in progress
    events           \* history of the traversal: what was begun and ended, in order

vars == <<type_bindings, CURRENT_LEVEL, diagnostics, visits, rows, pending, aborted,
          ast, definition_infos, call_stack, events>>

(* the state of a traversal of a program *)
ast_vars == <<ast, definition_infos, call_stack, events>>

----------------------------------------------------------------------------
(* Bounds of the model *)

MaxVars == 3          \* type variables the cache may hold
MaxRowVars == 4       \* the same, where only partial records are unified
MaxGenVars == 5       \* the same, where types are generalized and instantiated
MaxInstances == 2     \* instantiations of one generalized type a caller keeps
MaxLevel == 2         \* largest level name resolution gives a Definition
MaxNesting == 1       \* Definition visits that may be active at once
MaxDiagnostics == 1   \* diagnostics the cache may hold
StackDepth == 24      \* nested calls of the unifier before the stack is exhausted

(* Program constants *)

INITIAL_LEVEL == 1
RECURSION_LIMIT == 100

----------------------------------------------------------------------------
(* Types *)

Primitive(p) == [tag |-> "Primitive", p |-> p]
Tag(t) == [tag |-> "Tag", t |-> t]
UserDefined(id) == [tag |-> "UserDefined", id |-> id]
TypeVariable(id) == [tag |-> "TypeVariable", id |-> id]
NamedGeneric(id, name) == [tag |-> "NamedGeneric", id |-> id, name |-> name]
Function(parameters, return_type, environment, effects, has_varargs) ==
    [tag |-> "Function", parameters |-> parameters, return_type |-> return_type,
     environment |-> environment, effects |-> effects, has_varargs |-> has_varargs]
TypeApplication(constructor, args) ==
    [tag |-> "TypeApplication", constructor |-> constructor, args |-> args]
Ref(mutability, sharedness, lifetime) ==
    [tag |-> "Ref", mutability |-> mutability, sharedness |-> sharedness, lifetime |-> lifetime]
Struct(fields, rest) == [tag |-> "Struct", fields |-> fields, rest |-> rest]
Effects(effects, extension) == [tag |-> "Effects", effects |-> effects, extension |-> extension]

Unbound(level, kind) == [bound |-> FALSE, level |-> level, kind |-> kind]
Bound(typ) == [bound |-> TRUE, typ |-> typ]

MonoType(typ) == [poly |-> FALSE, typ |-> typ]
PolyType(typevars, typ) == [poly |-> TRUE, typevars |-> typevars, typ |-> typ]

(* BTreeMap<String, Type> iterates its keys in order *)
FieldOrder == <<"x", "y", "z">>
FieldNames(fields) == SelectSeq(FieldOrder, LAMBDA n : n \in DOMAIN fields)

(* HashMap<TypeVariableId, Type> *)
EmptyMap == [i \in {} |-> TRUE]
MapInsert(map, k, v) == [i \in (DOMAIN map) \cup {k} |-> IF i = k THEN v ELSE map[i]]

UnificationBindings_empty == [bindings |-> EmptyMap, level_bindings |-> <<>>]


----------------------------------------------------------------------------
(* The type definitions name resolution left in the cache.  UserDefined(1)  *)
(* is  type T a = x: Int, y: a  whose parameter a is type variable 1,       *)
(* UserDefined(2) a union, UserDefined(3) is  type P = x: Int, y: Bool  and *)
(* UserDefined(4) an alias of P.                                            *)

NumTypeArgs == 1

TypeInfos ==
    <<[args |-> <<1>>,
       body |-> [kind |-> "Struct",
                 fields |-> [x |-> Primitive("Int"), y |-> TypeVariable(1)]]],
      [args |-> <<>>, body |-> [kind |-> "Union"]],
      [args |-> <<>>,
       body |-> [kind |-> "Struct",
                 fields |-> [x |-> Primitive("Int"), y |-> Primitive("Bool")]]],
      [args |-> <<>>, body |-> [kind |-> "Alias", typ |-> UserDefined(3)]]>>

----------------------------------------------------------------------------
(* Module cache *)

next_type_variable_id(cache, level) == Append(cache, Unbound(level, "Normal"))

cache_bind(cache, id, binding) == [cache EXCEPT ![id] = Bound(binding)]

----------------------------------------------------------------------------
(* Lookups *)

has_binding(id, map, cache) ==
    IF cache[id].bound THEN TRUE ELSE id \in DOMAIN map.bindings

(* the binding the cache holds is not looked at *)
find_binding_staged_only(id, map, cache) ==
    IF id \in DOMAIN map.bindings THEN Bound(map.bindings[id])
    ELSE IF cache[id].bound THEN Unbound(INITIAL_LEVEL, "Normal")
    ELSE Unbound(cache[id].level, cache[id].kind)

find_binding(id, map, cache) ==
    IF cache[id].bound THEN Bound(cache[id].typ)
    ELSE IF id \in DOMAIN map.bindings THEN Bound(map.bindings[id])
    ELSE Unbound(cache[id].level, cache[id].kind)

RECURSIVE follow_bindings_in_cache_and_map(_, _, _)
follow_bindings_in_cache_and_map(typ, bindings, cache) ==
    IF typ.tag = "TypeVariable"
    THEN LET b == find_binding(typ.id, bindings, cache)
         IN  IF b.bound THEN follow_bindings_in_cache_and_map(b.typ, bindings, cache)
             ELSE typ
    ELSE typ

RECURSIVE follow_bindings_in_cache(_, _)
follow_bindings_in_cache(typ, cache) ==
    IF typ.tag = "TypeVariable"
    THEN IF cache[typ.id].bound THEN follow_bindings_in_cache(cache[typ.id].typ, cache)
         ELSE typ
    ELSE typ

----------------------------------------------------------------------------
(* bind_typevars *)

RECURSIVE bind_typevars(_, _, _)

bind_typevar(id, type_bindings_, cache) ==
    IF id \in DOMAIN type_bindings_ THEN type_bindings_[id]
    ELSE IF cache[id].bound THEN bind_typevars(cache[id].typ, type_bindings_, cache)
    ELSE TypeVariable(id)

Effects_bind_typevars(effects, type_bindings_, cache) ==
    IF effects.extension = 0 THEN effects
    ELSE LET ext == bind_typevar(effects.extension, type_bindings_, cache)
         IN  IF ext.tag = "TypeVariable" THEN Effects(effects.effects, ext.id)
             ELSE IF ext.tag = "Effects" THEN ext
             ELSE effects

bind_typevars(typ, type_bindings_, cache) ==
    CASE typ.tag = "Primitive" -> typ
      [] typ.tag = "Tag" -> typ
      [] typ.tag = "TypeVariable" -> bind_typevar(typ.id, type_bindings_, cache)
      [] typ.tag = "NamedGeneric" ->
            IF typ.id \in DOMAIN type_bindings_ THEN type_bindings_[typ.id] ELSE typ
      [] typ.tag = "Function" ->
            Function([i \in DOMAIN typ.parameters |->
                          bind_typevars(typ.parameters[i], type_bindings_, cache)],
                     bind_typevars(typ.return_type, type_bindings_, cache),
                     bind_typevars(typ.environment, type_bindings_, cache),
                     bind_typevars(typ.effects, type_bindings_, cache),
                     typ.has_varargs)
      [] typ.tag = "UserDefined" -> typ
      [] typ.tag = "Ref" ->
            Ref(bind_typevars(typ.mutability, type_bindings_, cache),
                bind_typevars(typ.sharedness, type_bindings_, cache),
                bind_typevars(typ.lifetime, type_bindings_, cache))
      [] typ.tag = "TypeApplication" ->
            TypeApplication(bind_typevars(typ.constructor, type_bindings_, cache),
                            [i \in DOMAIN typ.args |->
                                 bind_typevars(typ.args[i], type_bindings_, cache)])
      [] typ.tag = "Struct" ->
            IF typ.rest \in DOMAIN type_bindings_
            THEN IF type_bindings_[typ.rest].tag = "TypeVariable"
                 THEN Struct([n \in DOMAIN typ.fields |->
                                  bind_typevars(typ.fields[n], type_bindings_, cache)],
                             type_bindings_[typ.rest].id)
                 ELSE type_bindings_[typ.rest]
            ELSE IF cache[typ.rest].bound
                 THEN bind_typevars(cache[typ.rest].typ, type_bindings_, cache)
                 ELSE Struct([n \in DOMAIN typ.fields |->
                                  bind_typevars(typ.fields[n], type_bindings_, cache)],
                             typ.rest)
      [] typ.tag = "Effects" -> Effects_bind_typevars(typ, type_bindings_, cache)

replace_typevars(typ, typevars_to_replace, cache) ==
    bind_typevars(typ,
                  [k \in DOMAIN typevars_to_replace |-> TypeVariable(typevars_to_replace[k])],
                  cache)

type_application_bindings(info, typeargs, cache) ==
    LET n == IF Len(info.args) < Len(typeargs) THEN Len(info.args) ELSE Len(typeargs)
        followed(i) == follow_bindings_in_cache(typeargs[i], cache)
        kept == {i \in 1..n : TypeVariable(info.args[i]) # followed(i)}
    IN  [a \in {info.args[i] : i \in kept} |->
            followed(CHOOSE i \in kept : info.args[i] = a)]

----------------------------------------------------------------------------
(* Occurs check *)
(*                                                                         *)
(* `seen` is not in the code: it holds the bound variables whose bindings  *)
(* the calls on the stack are inside.  Meeting one of them again means the *)
(* traversal repeats itself until the fuel is spent, so the panic of       *)
(* `fuel == 0` is reported there instead of unrolling the remaining calls. *)

OccursResult(occurs, level_bindings) ==
    [occurs |-> occurs, panic |-> FALSE, level_bindings |-> level_bindings]
does_not_occur == OccursResult(FALSE, <<>>)
OccursPanic == [occurs |-> FALSE, panic |-> TRUE, level_bindings |-> <<>>]

(* OccursResult::then: the second result is evaluated only if the first did not occur *)
OccursAppend(first, other) ==
    [occurs |-> other.occurs, panic |-> other.panic,
     level_bindings |-> first.level_bindings \o other.level_bindings]

RECURSIVE occurs_helper(_, _, _, _, _, _, _)
RECURSIVE then_all(_, _, _, _, _, _, _, _, _)

(* the haystack is never the needle *)
typevars_match_never(needle, level, haystack, bindings, fuel, cache, seen) ==
    does_not_occur

typevars_match(needle, level, haystack, bindings, fuel, cache, seen) ==
    LET b == find_binding(haystack, bindings, cache)
    IN  IF b.bound
        THEN IF haystack \in seen THEN OccursPanic
             ELSE occurs_helper(needle, level, b.typ, bindings, fuel, cache,
                                seen \cup {haystack})
        ELSE OccursResult(needle = haystack,
                          IF level < b.level THEN <<(<<needle, level>>)>> ELSE <<>>)

(* OccursResult::then_all over types[i..] *)
then_all(self, types, i, id, level, bindings, fuel, cache, seen) ==
    IF self.occurs \/ self.panic \/ i > Len(types) THEN self
    ELSE then_all(OccursAppend(self,
                      occurs_helper(id, level, types[i], bindings, fuel, cache, seen)),
                  types, i + 1, id, level, bindings, fuel, cache, seen)

Effects_occurs(effects, id, level, bindings, fuel, cache, seen) ==
    IF effects.extension = 0 THEN does_not_occur
    ELSE typevars_match(id, level, effects.extension, bindings, fuel, cache, seen)

occurs_in_function(id, level, function, bindings, fuel, cache, seen) ==
    then_all(occurs_helper(id, level, function.return_type, bindings, fuel, cache, seen),
             <<function.environment, function.effects>> \o function.parameters,
             1, id, level, bindings, fuel, cache, seen)

occurs_helper(id, level, typ, bindings, fuel_, cache, seen) ==
    IF fuel_ = 0 THEN OccursPanic
    ELSE LET fuel == fuel_ - 1 IN
      CASE typ.tag = "Primitive" -> does_not_occur
        [] typ.tag = "UserDefined" -> does_not_occur
        [] typ.tag = "Tag" -> does_not_occur
        [] typ.tag = "TypeVariable" ->
              typevars_match(id, level, typ.id, bindings, fuel, cache, seen)
        [] typ.tag = "NamedGeneric" ->
              typevars_match(id, level, typ.id, bindings, fuel, cache, seen)
        [] typ.tag = "Function" ->
              occurs_in_function(id, level, typ, bindings, fuel, cache, seen)
        [] typ.tag = "TypeApplication" ->
              then_all(occurs_helper(id, level, typ.constructor, bindings, fuel, cache, seen),
                       typ.args, 1, id, level, bindings, fuel, cache, seen)
        [] typ.tag = "Ref" ->
              then_all(occurs_helper(id, level, typ.mutability, bindings, fuel, cache, seen),
                       <<typ.sharedness, typ.lifetime>>, 1, id, level, bindings, fuel, cache,
                       seen)
        [] typ.tag = "Struct" ->
              then_all(typevars_match(id, level, typ.rest, bindings, fuel, cache, seen),
                       [i \in 1..Len(FieldNames(typ.fields)) |->
                            typ.fields[FieldNames(typ.fields)[i]]],
                       1, id, level, bindings, fuel, cache, seen)
        [] typ.tag = "Effects" -> Effects_occurs(typ, id, level, bindings, fuel, cache, seen)

----------------------------------------------------------------------------
(* The unifier.  st is what the Rust code threads through its calls: the   *)
(* staged UnificationBindings (bindings, level_bindings), the cache, and    *)
(* the Result so far: "Ok", "Err", or "Abort" when the process ended       *)
(* (a panic, or no stack left after `depth` nested calls).                 *)

Err(st) == [st EXCEPT !.res = "Err"]
Abort(st) == [st EXCEPT !.res = "Abort"]
Insert(st, id, typ) == [st EXCEPT !.bindings = MapInsert(st.bindings, id, typ)]

RECURSIVE try_unify_with_bindings_inner(_, _, _, _)
RECURSIVE try_unify_pointwise(_, _, _, _, _)
RECURSIVE get_fields(_, _, _, _)
RECURSIVE bind_struct_fields_loop(_, _, _, _, _, _)
RECURSIVE bind_struct_fields_subset_loop(_, _, _, _, _, _)

(* for (a, b) in as.iter().zip(bs.iter()) { try_unify_with_bindings_inner(a, b, ..)? } *)
try_unify_pointwise(as, bs, i, st, depth) ==
    IF st.res # "Ok" \/ i > Len(as) \/ i > Len(bs) THEN st
    ELSE try_unify_pointwise(as, bs, i + 1,
                             try_unify_with_bindings_inner(as[i], bs[i], st, depth), depth)

(* the variable is bound without testing that the other side is the variable itself *)
try_unify_type_variable_untested(id, a, b, typevar_on_lhs, st, depth) ==
    LET binding == find_binding(id, st, st.cache)
    IN  IF binding.bound
        THEN IF typevar_on_lhs
             THEN try_unify_with_bindings_inner(binding.typ, b, st, depth)
             ELSE try_unify_with_bindings_inner(b, binding.typ, st, depth)
        ELSE LET followed == follow_bindings_in_cache_and_map(b, st, st.cache)
                 result == occurs_helper(id, binding.level, followed, st,
                                         RECURSION_LIMIT, st.cache, {})
             IN  IF result.panic THEN Abort(st)
                 ELSE IF result.occurs THEN Err(st)
                 ELSE Insert(st, id, followed)

try_unify_type_variable_with_bindings(id, a, b, typevar_on_lhs, st, depth) ==
    LET binding == find_binding(id, st, st.cache)
    IN  IF binding.bound
        THEN IF typevar_on_lhs
             THEN try_unify_with_bindings_inner(binding.typ, b, st, depth)
             ELSE try_unify_with_bindings_inner(b, binding.typ, st, depth)
        ELSE LET followed == follow_bindings_in_cache_and_map(b, st, st.cache)
             IN  IF a # followed
                 THEN LET result == occurs_helper(id, binding.level, followed, st,
                                                  RECURSION_LIMIT, st.cache, {})
                      IN  IF result.panic THEN Abort(st)
                          ELSE IF result.occurs THEN Err(st)
                          ELSE Insert(st, id, followed)
                 ELSE st

(* no variable is minted: the merged struct takes the last variable of the cache *)
new_row_variable_reused(row1, row2, cache) == cache

(* the merged struct's row takes the inner of the two levels *)
new_row_variable_inner_level(row1, row2, cache) ==
    LET new_level == IF cache[row1].level < cache[row2].level
                     THEN cache[row2].level ELSE cache[row1].level
    IN  next_type_variable_id(cache, new_level)

new_row_variable(row1, row2, cache) ==
    LET new_level == IF cache[row1].level < cache[row2].level
                     THEN cache[row1].level ELSE cache[row2].level
    IN  next_type_variable_id(cache, new_level)

(* the loop of bind_struct_fields over fields2[names[i..]], unifying the shared fields *)
bind_struct_fields_loop(fields1, fields2, names, i, st, depth) ==
    IF st.res # "Ok" \/ i > Len(names) THEN st
    ELSE bind_struct_fields_loop(fields1, fields2, names, i + 1,
            IF names[i] \in DOMAIN fields1
            THEN try_unify_with_bindings_inner(fields1[names[i]], fields2[names[i]], st, depth)
            ELSE st,
            depth)

bind_struct_fields(fields1, fields2, rest1, rest2, st0, depth) ==
    LET new_fields == [n \in (DOMAIN fields1) \cup (DOMAIN fields2) |->
                          IF n \in DOMAIN fields1 THEN fields1[n] ELSE fields2[n]]
        st == bind_struct_fields_loop(fields1, fields2, FieldNames(fields2), 1, st0, depth)
        len == Cardinality(DOMAIN new_fields)
        len1 == Cardinality(DOMAIN fields1)
        len2 == Cardinality(DOMAIN fields2)
    IN  IF st.res # "Ok" THEN st
        ELSE IF len # len1 /\ len # len2
        THEN LET s1 == try_unify_type_variable_with_bindings(
                           rest1, TypeVariable(rest1), TypeVariable(rest2), TRUE, st, depth)
                 cache2 == new_row_variable(rest1, rest2, s1.cache)
                 new_rest == Len(cache2)
             IN  IF s1.res # "Ok" THEN s1
                 ELSE Insert([s1 EXCEPT !.cache = cache2], rest2, Struct(new_fields, new_rest))
        ELSE IF len # len1
        THEN try_unify_type_variable_with_bindings(
                 rest1, TypeVariable(rest1), Struct(new_fields, rest2), TRUE, st, depth)
        ELSE IF len # len2
        THEN try_unify_type_variable_with_bindings(
                 rest2, TypeVariable(rest2), Struct(new_fields, rest1), FALSE, st, depth)
        ELSE st

bind_struct_fields_subset_loop(fields, template, names, i, st, depth) ==
    IF st.res # "Ok" \/ i > Len(names) THEN st
    ELSE bind_struct_fields_subset_loop(fields, template, names, i + 1,
            IF names[i] \in DOMAIN template
            THEN try_unify_with_bindings_inner(template[names[i]], fields[names[i]], st, depth)
            ELSE Err(st),
            depth)

bind_struct_fields_subset(fields, template, st, depth) ==
    IF Cardinality(DOMAIN fields) > Cardinality(DOMAIN template) THEN Err(st)
    ELSE bind_struct_fields_subset_loop(fields, template, FieldNames(fields), 1, st, depth)

(* Result<BTreeMap<String, Type>, ()> as [res, fields] *)
get_fields(typ, args, st, depth) ==
    IF depth = 0 THEN [res |-> "Abort"]
    ELSE
    IF typ.tag = "UserDefined" THEN
        LET info == TypeInfos[typ.id]
        IN  IF info.body.kind = "Alias"
            THEN get_fields(info.body.typ, args, st, depth - 1)
            ELSE IF info.body.kind = "Union" THEN [res |-> "Err"]
            ELSE IF info.body.kind = "Unknown" THEN [res |-> "Abort"]
            ELSE LET more_bindings ==
                         IF args # <<>> THEN type_application_bindings(info, args, st.cache)
                         ELSE EmptyMap
                 IN  [res |-> "Ok",
                      fields |-> [n \in DOMAIN info.body.fields |->
                          IF DOMAIN more_bindings = {} THEN info.body.fields[n]
                          ELSE bind_typevars(info.body.fields[n], more_bindings, st.cache)]]
    ELSE IF typ.tag = "TypeApplication" THEN
        get_fields(follow_bindings_in_cache_and_map(typ.constructor, st, st.cache),
                   typ.args, st, depth - 1)
    ELSE IF typ.tag = "Struct" THEN
        IF st.cache[typ.rest].bound
        THEN get_fields(st.cache[typ.rest].typ, args, st, depth - 1)
        ELSE [res |-> "Ok", fields |-> typ.fields]
    ELSE IF typ.tag = "TypeVariable" THEN
        IF st.cache[typ.id].bound
        THEN get_fields(st.cache[typ.id].typ, args, st, depth - 1)
        ELSE [res |-> "Err"]
    ELSE [res |-> "Err"]

(* spec 4.5 for the effect sets the model builds: no effects, at most an extension *)
Effects_try_unify_with_bindings(effects1, effects2, st, depth) ==
    IF effects1.extension = 0 /\ effects2.extension = 0 THEN st
    ELSE IF effects1.extension # 0 /\ effects2.extension # 0
    THEN try_unify_with_bindings_inner(TypeVariable(effects1.extension),
                                       TypeVariable(effects2.extension), st, depth)
    ELSE st

(* the row is bound to the other type without comparing the fields *)
struct_other_unchecked(fields1, rest, other, st, depth) ==
    LET fields2 == get_fields(other, <<>>, st, depth)
    IN  IF fields2.res = "Abort" THEN Abort(st)
        ELSE IF fields2.res = "Err" THEN Err(st)
        ELSE Insert(st, rest, other)

struct_other(fields1, rest, other, st, depth) ==
    LET fields2 == get_fields(other, <<>>, st, depth)
    IN  IF fields2.res = "Abort" THEN Abort(st)
        ELSE IF fields2.res = "Err" THEN Err(st)
        ELSE LET s1 == bind_struct_fields_subset(fields1, fields2.fields, st, depth)
             IN  IF s1.res # "Ok" THEN s1 ELSE Insert(s1, rest, other)

(* the varargs exception is left out: the parameter counts must be equal *)
try_unify_function_exact_arity(function1, function2, st, depth) ==
    IF Len(function1.parameters) # Len(function2.parameters)
    THEN Err(st)
    ELSE LET s1 == try_unify_pointwise(function1.parameters, function2.parameters, 1, st, depth)
             s2 == IF s1.res # "Ok" THEN s1
                   ELSE try_unify_with_bindings_inner(function2.return_type,
                                                      function1.return_type, s1, depth)
             s3 == IF s2.res # "Ok" THEN s2
                   ELSE try_unify_with_bindings_inner(function1.environment,
                                                      function2.environment, s2, depth)
         IN  IF s3.res # "Ok" THEN s3
             ELSE try_unify_with_bindings_inner(function1.effects, function2.effects, s3, depth)

(* the return types are unified in the order of the parameters *)
try_unify_function_unreversed(function1, function2, st, depth) ==
    IF /\ Len(function1.parameters) # Len(function2.parameters)
       /\ ~(function1.has_varargs /\ Len(function2.parameters) >= Len(function1.parameters))
       /\ ~(function2.has_varargs /\ Len(function1.parameters) >= Len(function2.parameters))
    THEN Err(st)
    ELSE LET s1 == try_unify_pointwise(function1.parameters, function2.parameters, 1, st, depth)
             s2 == IF s1.res # "Ok" THEN s1
                   ELSE try_unify_with_bindings_inner(function1.return_type,
                                                      function2.return_type, s1, depth)
             s3 == IF s2.res # "Ok" THEN s2
                   ELSE try_unify_with_bindings_inner(function1.environment,
                                                      function2.environment, s2, depth)
         IN  IF s3.res # "Ok" THEN s3
             ELSE try_unify_with_bindings_inner(function1.effects, function2.effects, s3, depth)

try_unify_function(function1, function2, st, depth) ==
    IF /\ Len(function1.parameters) # Len(function2.parameters)
       /\ ~(function1.has_varargs /\ Len(function2.parameters) >= Len(function1.parameters))
       /\ ~(function2.has_varargs /\ Len(function1.parameters) >= Len(function2.parameters))
    THEN Err(st)
    ELSE LET s1 == try_unify_pointwise(function1.parameters, function2.parameters, 1, st, depth)
             s2 == IF s1.res # "Ok" THEN s1
                   ELSE try_unify_with_bindings_inner(function2.return_type,
                                                      function1.return_type, s1, depth)
             s3 == IF s2.res # "Ok" THEN s2
                   ELSE try_unify_with_bindings_inner(function1.environment,
                                                      function2.environment, s2, depth)
         IN  IF s3.res # "Ok" THEN s3
             ELSE try_unify_with_bindings_inner(function1.effects, function2.effects, s3, depth)

(* the kinds of two rigid generics without a binding decide their unification *)
named_generics_any_kind(actual, expected, st) ==
    Insert(st, actual.id, NamedGeneric(expected.id, expected.name))

named_generics(actual, expected, st) ==
    IF st.cache[actual.id].kind # st.cache[expected.id].kind THEN Err(st)
    ELSE Insert(st, actual.id, NamedGeneric(expected.id, expected.name))

(* both directions of the subsumption are accepted *)
tags_symmetric(tag1, tag2) ==
    \/ tag1 = tag2
    \/ {tag1, tag2} = {"Mutable", "Immutable"}
    \/ {tag1, tag2} = {"Owned", "Shared"}

(* the three arms for a pair of tags: equal, ! <: &, owned <: shared *)
tags(tag1, tag2) ==
    \/ tag1 = tag2
    \/ tag1 = "Mutable" /\ tag2 = "Immutable"
    \/ tag1 = "Owned" /\ tag2 = "Shared"

(* The arms of the match are tried in the order of the source. *)
try_unify_with_bindings_inner(actual, expected, st, depth_) ==
    IF st.res # "Ok" THEN st
    ELSE IF depth_ = 0 THEN Abort(st)
    ELSE LET depth == depth_ - 1
             a == actual.tag
             e == expected.tag
         IN
    IF a = "Primitive" /\ e = "Primitive" /\ actual.p = expected.p THEN st
    ELSE IF a = "UserDefined" /\ e = "UserDefined" /\ actual.id = expected.id THEN st
    ELSE IF a = "TypeVariable" THEN
        try_unify_type_variable_with_bindings(actual.id, actual, expected, TRUE, st, depth)
    ELSE IF e = "TypeVariable" THEN
        try_unify_type_variable_with_bindings(expected.id, expected, actual, FALSE, st, depth)
    ELSE IF a = "Function" /\ e = "Function" THEN
        try_unify_function(actual, expected, st, depth)
    ELSE IF a = "TypeApplication" /\ e = "TypeApplication" THEN
        LET s1 == try_unify_with_bindings_inner(actual.constructor, expected.constructor,
                                                st, depth)
        IN  IF s1.res # "Ok" THEN s1
            ELSE IF Len(actual.args) # Len(expected.args) THEN Err(s1)
            ELSE try_unify_pointwise(actual.args, expected.args, 1, s1, depth)
    ELSE IF a = "Ref" /\ e = "Ref" THEN
        try_unify_pointwise(<<actual.sharedness, actual.mutability, actual.lifetime>>,
                            <<expected.sharedness, expected.mutability, expected.lifetime>>,
                            1, st, depth)
    ELSE IF a = "Struct" /\ st.cache[actual.rest].bound THEN
        try_unify_with_bindings_inner(st.cache[actual.rest].typ, expected, st, depth)
    ELSE IF e = "Struct" /\ st.cache[expected.rest].bound THEN
        try_unify_with_bindings_inner(st.cache[expected.rest].typ, actual, st, depth)
    ELSE IF a = "Struct" /\ e = "Struct" THEN
        bind_struct_fields(actual.fields, expected.fields, actual.rest, expected.rest, st, depth)
    ELSE IF a = "Struct" THEN struct_other(actual.fields, actual.rest, expected, st, depth)
    ELSE IF e = "Struct" THEN struct_other(expected.fields, expected.rest, actual, st, depth)
    ELSE IF a = "NamedGeneric" /\ has_binding(actual.id, st, st.cache) THEN
        try_unify_with_bindings_inner(find_binding(actual.id, st, st.cache).typ, expected,
                                      st, depth)
    ELSE IF e = "NamedGeneric" /\ has_binding(expected.id, st, st.cache) THEN
        try_unify_with_bindings_inner(actual, find_binding(expected.id, st, st.cache).typ,
                                      st, depth)
    ELSE IF a = "NamedGeneric" /\ e = "NamedGeneric" /\ actual.id = expected.id THEN st
    ELSE IF a = "NamedGeneric" /\ e = "NamedGeneric" THEN named_generics(actual, expected, st)
    ELSE IF a = "Effects" /\ e = "Effects" THEN
        Effects_try_unify_with_bindings(actual, expected, st, depth)
    ELSE IF a = "Tag" /\ e = "Tag" /\ tags(actual.t, expected.t) THEN st
    ELSE Err(st)

(* try_unify: Ok(bindings) or Err(diagnostic), with the cache as the call left it *)
try_unify(actual, expected, cache) ==
    try_unify_with_bindings_inner(actual, expected,
        [res |-> "Ok", bindings |-> EmptyMap, level_bindings |-> <<>>, cache |-> cache],
        StackDepth)

----------------------------------------------------------------------------
(* Committing a UnificationResult *)

(* the staged bindings are dropped *)
perform_type_bindings_dropped(bindings, cache) == cache

RECURSIVE perform_type_bindings(_, _)
perform_type_bindings(bindings, cache) ==
    IF DOMAIN bindings = {} THEN cache
    ELSE LET id == CHOOSE i \in DOMAIN bindings : TRUE
         IN  perform_type_bindings([i \in (DOMAIN bindings) \ {id} |-> bindings[i]],
                                   cache_bind(cache, id, bindings[id]))

RECURSIVE perform_level_bindings(_, _, _)
perform_level_bindings(level_bindings, i, cache) ==
    IF i > Len(level_bindings) THEN cache
    ELSE LET id == level_bindings[i][1]
             level == level_bindings[i][2]
         IN  perform_level_bindings(level_bindings, i + 1,
                 IF cache[id].bound THEN cache
                 ELSE [cache EXCEPT ![id] =
                          Unbound(IF level < cache[id].level THEN level ELSE cache[id].level,
                                  cache[id].kind)])

(* UnificationBindings::perform *)
perform(self, cache) ==
    perform_level_bindings(self.level_bindings, 1, perform_type_bindings(self.bindings, cache))

----------------------------------------------------------------------------
(* Generalization.  A traversal returns [panic, vars]: the Vec of variable *)
(* ids in the order found, or the panic of the recursion limit.  `seen` is *)
(* as in the occurs check.                                                 *)

(* only the variables above the current level count *)
level_is_polymorphic_strict(level, current_level) == level > current_level

level_is_polymorphic(level, current_level) == level >= current_level

Found(vars_) == [panic |-> FALSE, vars |-> vars_]
FindPanic == [panic |-> TRUE, vars |-> <<>>]
FoundAppend(first, other) ==
    [panic |-> first.panic \/ other.panic, vars |-> first.vars \o other.vars]

RECURSIVE find_all_typevars_helper(_, _, _, _, _, _)
RECURSIVE find_all_typevars_in(_, _, _, _, _, _, _)

find_typevars_in_typevar_binding(id, polymorphic_only, cache, current_level, fuel_, seen) ==
    IF fuel_ = 0 THEN FindPanic
    ELSE LET fuel == fuel_ - 1
         IN  IF cache[id].bound
             THEN IF id \in seen THEN FindPanic
                  ELSE find_all_typevars_helper(cache[id].typ, polymorphic_only, cache,
                                                current_level, fuel, seen \cup {id})
             ELSE IF ~polymorphic_only \/ level_is_polymorphic(cache[id].level, current_level)
                  THEN Found(<<id>>)
                  ELSE Found(<<>>)

(* type_variables.append(find_all_typevars_helper(t, ..)) for t in types[i..] *)
find_all_typevars_in(types, i, polymorphic_only, cache, current_level, fuel, seen) ==
    IF i > Len(types) THEN Found(<<>>)
    ELSE FoundAppend(
             find_all_typevars_helper(types[i], polymorphic_only, cache, current_level, fuel,
                                      seen),
             find_all_typevars_in(types, i + 1, polymorphic_only, cache, current_level, fuel,
                                  seen))

Effects_find_all_typevars(effects, polymorphic_only, cache, current_level, fuel, seen) ==
    IF effects.extension = 0 THEN Found(<<>>)
    ELSE find_typevars_in_typevar_binding(effects.extension, polymorphic_only, cache,
                                          current_level, fuel, seen)

find_all_typevars_helper(typ, polymorphic_only, cache, current_level, fuel, seen) ==
    CASE typ.tag = "Primitive" -> Found(<<>>)
      [] typ.tag = "UserDefined" -> Found(<<>>)
      [] typ.tag = "Tag" -> Found(<<>>)
      [] typ.tag = "TypeVariable" ->
            find_typevars_in_typevar_binding(typ.id, polymorphic_only, cache, current_level,
                                             fuel, seen)
      [] typ.tag = "NamedGeneric" ->
            find_typevars_in_typevar_binding(typ.id, polymorphic_only, cache, current_level,
                                             fuel, seen)
      [] typ.tag = "Function" ->
            find_all_typevars_in(
                typ.parameters \o <<typ.environment, typ.return_type, typ.effects>>,
                1, polymorphic_only, cache, current_level, fuel, seen)
      [] typ.tag = "TypeApplication" ->
            find_all_typevars_in(<<typ.constructor>> \o typ.args,
                                 1, polymorphic_only, cache, current_level, fuel, seen)
      [] typ.tag = "Ref" ->
            find_all_typevars_in(<<typ.mutability, typ.sharedness, typ.lifetime>>,
                                 1, polymorphic_only, cache, current_level, fuel, seen)
      [] typ.tag = "Struct" ->
            IF cache[typ.rest].bound
            THEN IF typ.rest \in seen THEN FindPanic
                 ELSE find_all_typevars_helper(cache[typ.rest].typ, polymorphic_only, cache,
                                               current_level, fuel, seen \cup {typ.rest})
            ELSE FoundAppend(
                     find_typevars_in_typevar_binding(typ.rest, polymorphic_only, cache,
                                                      current_level, fuel, seen),
                     find_all_typevars_in(
                         [i \in 1..Len(FieldNames(typ.fields)) |->
                              typ.fields[FieldNames(typ.fields)[i]]],
                         1, polymorphic_only, cache, current_level, fuel, seen))
      [] typ.tag = "Effects" ->
            Effects_find_all_typevars(typ, polymorphic_only, cache, current_level, fuel, seen)

find_all_typevars(typ, polymorphic_only, cache, current_level) ==
    find_all_typevars_helper(typ, polymorphic_only, cache, current_level, RECURSION_LIMIT, {})

(* typevars.sort(); typevars.dedup(); *)
RECURSIVE SortedSeq(_)
SortedSeq(ids) ==
    IF ids = {} THEN <<>>
    ELSE LET least == CHOOSE i \in ids : \A j \in ids : i <= j
         IN  <<least>> \o SortedSeq(ids \ {least})

sort_dedup(typevars) == SortedSeq({typevars[i] : i \in DOMAIN typevars})

(* generalize: [panic, generalized] *)
generalize(typ, cache, current_level) ==
    LET typevars == find_all_typevars(typ, TRUE, cache, current_level)
    IN  IF typevars.panic THEN [panic |-> TRUE]
        ELSE IF typevars.vars = <<>>
        THEN [panic |-> FALSE, generalized |-> MonoType(typ)]
        ELSE [panic |-> FALSE, generalized |-> PolyType(sort_dedup(typevars.vars), typ)]

----------------------------------------------------------------------------
(* Instantiation with no trait constraints: (Type, TypeBindings) and the   *)
(* cache with the variables minted.                                        *)

RECURSIVE mint_typevars(_, _, _, _, _)
mint_typevars(typevars, i, typevars_to_replace, cache, current_level) ==
    IF i > Len(typevars) THEN [typevars_to_replace |-> typevars_to_replace, cache |-> cache]
    ELSE LET cache2 == next_type_variable_id(cache, current_level)
         IN  mint_typevars(typevars, i + 1,
                           MapInsert(typevars_to_replace, typevars[i], Len(cache2)),
                           cache2, current_level)

(* the type is returned as it is, nothing is minted *)
instantiate_shared(self, cache, current_level) ==
    [typ |-> self.typ,
     type_bindings |-> IF self.poly
                       THEN [k \in {self.typevars[i] : i \in DOMAIN self.typevars} |->
                                 TypeVariable(k)]
                       ELSE EmptyMap,
     cache |-> cache]

instantiate(self, cache, current_level) ==
    IF ~self.poly
    THEN [typ |-> self.typ, type_bindings |-> EmptyMap, cache |-> cache]
    ELSE LET minted == mint_typevars(self.typevars, 1, EmptyMap, cache, current_level)
             typevars_to_replace == minted.typevars_to_replace
         IN  [typ |-> replace_typevars(self.typ, typevars_to_replace, minted.cache),
              type_bindings |-> [k \in DOMAIN typevars_to_replace |->
                                     TypeVariable(typevars_to_replace[k])],
              cache |-> minted.cache]

----------------------------------------------------------------------------
(* The types the callers hand to the unifier, over the inference variables *)
(* minted so far.                                                          *)

IntT == Primitive("Int")
BoolT == Primitive("Bool")
UnitT == Primitive("Unit")
NoEffects == Effects(<<>>, 0)
Fn(parameter, return_type) == Function(<<parameter>>, return_type, UnitT, NoEffects, FALSE)
T(arg) == TypeApplication(UserDefined(1), <<arg>>)

InferenceVars(cache) == (NumTypeArgs + 1)..Len(cache)

(* the variables that stand for a type, not for the rest of a struct *)
TypeVars(cache, rows_) == InferenceVars(cache) \ DOMAIN rows_

(* the partial records in use *)
StructTypes(rows_) == {Struct(rows_[r], r) : r \in DOMAIN rows_}

InputTypes(cache, rows_) ==
    LET V == TypeVars(cache, rows_) IN
    {IntT, BoolT}
    \cup {TypeVariable(v) : v \in V}
    \cup {Fn(TypeVariable(v), IntT) : v \in V}
    \cup {Fn(IntT, BoolT)}
    \cup {T(TypeVariable(v)) : v \in V}
    \cup StructTypes(rows_)

(* the types whose generalization and instantiation are followed *)
GenTypes(cache, rows_) ==
    LET V == TypeVars(cache, rows_) IN
    {TypeVariable(v) : v \in V}
    \cup {Fn(TypeVariable(p[1]), TypeVariable(p[2])) : p \in {q \in V \X V : q[2] <= q[1]}}
    \cup StructTypes(rows_)

(* and the unifications <<actual, expected>> made before *)
GenUnifications(cache, rows_) ==
    LET V == TypeVars(cache, rows_) IN
    {<<TypeVariable(v), IntT>> : v \in V}
    \cup {<<TypeVariable(p[1]), TypeVariable(p[2])>> : p \in {q \in V \X V : q[1] # q[2]}}
    \cup {<<T(TypeVariable(v)), Struct(rows_[r], r)>> : v \in V, r \in DOMAIN rows_}

(* every kind of type, for the unification of a type with itself *)
IdemTypes(cache, rows_) ==
    LET V == TypeVars(cache, rows_) IN
    {IntT, BoolT, UserDefined(1), UserDefined(2)}
    \cup {Tag(t) : t \in {"Mutable", "Immutable", "Owned", "Shared"}}
    \cup {TypeVariable(v) : v \in V}
    \cup {NamedGeneric(v, "a") : v \in V}
    \cup {Fn(TypeVariable(v), IntT) : v \in V}
    \cup {Function(<<TypeVariable(v), BoolT>>, TypeVariable(v), UnitT, NoEffects, TRUE) : v \in V}
    \cup {T(TypeVariable(v)) : v \in V}
    \cup {T(IntT)}
    \cup {Ref(Tag("Mutable"), Tag("Owned"), TypeVariable(v)) : v \in V}
    \cup {Ref(Tag("Immutable"), Tag("Shared"), Fn(TypeVariable(v), BoolT)) : v \in V}
    \cup StructTypes(rows_)
    \cup {Fn(s, IntT) : s \in StructTypes(rows_)}

(* caches earlier unifications leave, with the partial records in use *)
IdemCaches ==
    LET U(level) == Unbound(level, "Normal")
        xy == [x |-> IntT, y |-> BoolT]
    IN  {[cache |-> <<U(1), U(1), U(2), U(1)>>,
          rows |-> MapInsert(EmptyMap, 4, [x |-> TypeVariable(2)])],
         [cache |-> <<U(1), Bound(IntT), Bound(TypeVariable(2)), U(2)>>,
          rows |-> MapInsert(EmptyMap, 4, [x |-> TypeVariable(3), y |-> BoolT])],
         [cache |-> <<U(1), Bound(Fn(TypeVariable(3), IntT)), U(1), Bound(T(TypeVariable(3)))>>,
          rows |-> MapInsert(EmptyMap, 4, [x |-> IntT])],
         [cache |-> <<U(1), Bound(TypeVariable(3)), Bound(Struct(xy, 4)), U(1)>>,
          rows |-> MapInsert(MapInsert(MapInsert(EmptyMap, 2, [x |-> IntT]),
                                       3, [y |-> BoolT]), 4, xy)],
         [cache |-> <<U(1), Bound(NamedGeneric(3, "b")), U(1), U(2)>>,
          rows |-> EmptyMap],
         [cache |-> <<U(1), U(2), U(1), U(1)>>,
          rows |-> EmptyMap],
         [cache |-> <<U(1), Bound(T(TypeVariable(3))), U(1), Bound(TypeVariable(2))>>,
          rows |-> EmptyMap]}

(* the fields of the partial record a member access expects, by specification *)
KnownFields == {[x |-> IntT]}
RowFields == {[x |-> IntT], [y |-> BoolT]}
FreshFields(cache, rows_) ==
    {[x |-> TypeVariable(v)] : v \in {w \in TypeVars(cache, rows_) : ~cache[w].bound}}

(* the rows minted during a unification, with the fields staged for them *)
MintedRows(r, cache) ==
    LET minted == (Len(cache) + 1)..Len(r.cache)
        holder(n) == CHOOSE id \in DOMAIN r.bindings :
                         r.bindings[id].tag = "Struct" /\ r.bindings[id].rest = n
    IN  [n \in minted |-> r.bindings[holder(n)].fields]

----------------------------------------------------------------------------
(* State machine *)

None == [kind |-> "none"]

Init ==
    /\ type_bindings = <<Unbound(INITIAL_LEVEL, "Normal")>>
    /\ CURRENT_LEVEL = INITIAL_LEVEL
    /\ diagnostics = <<>>
    /\ visits = <<>>
    /\ rows = EmptyMap
    /\ pending = None
    /\ aborted = FALSE
    /\ ast = <<>>
    /\ definition_infos = <<>>
    /\ call_stack = <<>>
    /\ events = <<>>

Idle == pending = None /\ ~aborted

(* next_type_variable: a caller mints a variable at the current level *)
NextTypeVariable(max_vars) ==
    /\ Idle
    /\ Len(type_bindings) < max_vars
    /\ type_bindings' = next_type_variable_id(type_bindings, CURRENT_LEVEL)
    /\ UNCHANGED <<CURRENT_LEVEL, diagnostics, visits, rows, pending, aborted>>
    /\ UNCHANGED ast_vars

(* MemberAccess::infer_impl mints rho, the rest of the struct type it expects *)
NextRowVariable(fields, max_vars) ==
    /\ Idle
    /\ Len(type_bindings) < max_vars
    /\ type_bindings' = next_type_variable_id(type_bindings, CURRENT_LEVEL)
    /\ rows' = MapInsert(rows, Len(type_bindings) + 1, fields)
    /\ UNCHANGED <<CURRENT_LEVEL, diagnostics, visits, pending, aborted>>
    /\ UNCHANGED ast_vars

(* Definition::infer_impl up to the inference of the right-hand side *)
DefinitionEnter(level) ==
    /\ Idle
    /\ Len(visits) < MaxNesting
    /\ visits' = Append(visits, [level |-> level, previous_level |-> CURRENT_LEVEL,
                                 phase |-> "rhs"])
    /\ CURRENT_LEVEL' = level
    /\ UNCHANGED <<type_bindings, diagnostics, rows, pending, aborted>>
    /\ UNCHANGED ast_vars

(* the right-hand side has been inferred: the pattern is bound one level lower *)
DefinitionRhsDone ==
    /\ Idle
    /\ visits # <<>>
    /\ visits[Len(visits)].phase = "rhs"
    /\ visits' = [visits EXCEPT ![Len(visits)].phase = "lhs"]
    /\ CURRENT_LEVEL' = visits[Len(visits)].level - 1
    /\ UNCHANGED <<type_bindings, diagnostics, rows, pending, aborted>>
    /\ UNCHANGED ast_vars

(* the end of Definition::infer_impl *)
DefinitionExit ==
    /\ Idle
    /\ visits # <<>>
    /\ visits[Len(visits)].phase = "lhs"
    /\ CURRENT_LEVEL' = visits[Len(visits)].previous_level
    /\ visits' = SubSeq(visits, 1, Len(visits) - 1)
    /\ UNCHANGED <<type_bindings, diagnostics, rows, pending, aborted>>
    /\ UNCHANGED ast_vars

(* try_unify(actual, expected): the caller now holds the UnificationResult, *)
(* Ok(bindings) or Err(diagnostic)                                          *)
TryUnify(actual, expected, max_vars) ==
    /\ Idle
    /\ LET r == try_unify(actual, expected, type_bindings)
       IN  IF r.res = "Abort"
           THEN /\ aborted' = TRUE
                /\ UNCHANGED <<type_bindings, rows, pending>>
           ELSE /\ Len(r.cache) <= max_vars
                /\ type_bindings' = r.cache
                /\ rows' = [n \in (DOMAIN rows) \cup (DOMAIN MintedRows(r, type_bindings)) |->
                                IF n \in DOMAIN rows THEN rows[n]
                                ELSE MintedRows(r, type_bindings)[n]]
                /\ pending' = [kind |-> "unify", actual |-> actual, expected |-> expected,
                               res |-> r.res,
                               bindings |-> IF r.res = "Ok" THEN r.bindings ELSE EmptyMap,
                               level_bindings |->
                                   IF r.res = "Ok" THEN r.level_bindings ELSE <<>>]
                /\ UNCHANGED aborted
    /\ UNCHANGED <<CURRENT_LEVEL, diagnostics, visits>>
    /\ UNCHANGED ast_vars

(* perform_bindings_or_push_error on the result held *)
PerformBindingsOrPushError ==
    /\ pending.kind = "unify"
    /\ IF pending.res = "Ok"
       THEN /\ type_bindings' = perform(pending, type_bindings)
            /\ UNCHANGED diagnostics
       ELSE /\ Len(diagnostics) < MaxDiagnostics
            /\ diagnostics' = Append(diagnostics, "TypeError")
            /\ UNCHANGED type_bindings
    /\ pending' = None
    /\ UNCHANGED <<CURRENT_LEVEL, visits, rows, aborted>>
    /\ UNCHANGED ast_vars

(* the caller drops the value it holds *)
Discard ==
    /\ pending # None
    /\ pending' = None
    /\ UNCHANGED <<type_bindings, CURRENT_LEVEL, diagnostics, visits, rows, aborted>>
    /\ UNCHANGED ast_vars

(* a caller that commits a successful result and reports a failure itself *)
PerformBindings ==
    /\ pending.kind = "unify"
    /\ pending.res = "Ok"
    /\ PerformBindingsOrPushError

(* generalize(typ): the caller now holds the GeneralizedType *)
Generalize(typ) ==
    /\ Idle
    /\ LET g == generalize(typ, type_bindings, CURRENT_LEVEL)
       IN  IF g.panic
           THEN /\ aborted' = TRUE
                /\ UNCHANGED pending
           ELSE /\ pending' = [kind |-> "generalized", typ |-> typ,
                               generalized |-> g.generalized, instances |-> <<>>]
                /\ UNCHANGED aborted
    /\ UNCHANGED <<type_bindings, CURRENT_LEVEL, diagnostics, visits, rows>>
    /\ UNCHANGED ast_vars

(* generalized.instantiate(vec![], cache): the caller keeps what each call returned *)
Instantiate(max_vars) ==
    /\ pending.kind = "generalized"
    /\ Len(pending.instances) < MaxInstances
    /\ LET r == instantiate(pending.generalized, type_bindings, CURRENT_LEVEL)
       IN  /\ Len(r.cache) <= max_vars
           /\ type_bindings' = r.cache
           /\ rows' = rows
           /\ pending' = [pending EXCEPT !.instances =
                             Append(@, [typ |-> r.typ, type_bindings |-> r.type_bindings])]
    /\ UNCHANGED <<CURRENT_LEVEL, diagnostics, visits, aborted>>
    /\ UNCHANGED ast_vars

Next ==
    \/ NextTypeVariable(MaxVars)
    \/ \E fields \in KnownFields : NextRowVariable(fields, MaxVars)
    \/ \E level \in (INITIAL_LEVEL + 1)..MaxLevel : DefinitionEnter(level)
    \/ DefinitionRhsDone
    \/ DefinitionExit
    \/ \E actual, expected \in InputTypes(type_bindings, rows) :
           TryUnify(actual, expected, MaxVars)
    \/ PerformBindingsOrPushError
    \/ Discard

Spec == Init /\ [][Next]_vars

(* Generalization and instantiation, after unifications of variables *)
NextGen ==
    \/ NextTypeVariable(MaxGenVars)
    \/ \E fields \in FreshFields(type_bindings, rows) : NextRowVariable(fields, MaxGenVars)
    \/ \E level \in (INITIAL_LEVEL + 1)..MaxLevel : DefinitionEnter(level)
    \/ DefinitionRhsDone
    \/ DefinitionExit
    \/ \E u \in GenUnifications(type_bindings, rows) : TryUnify(u[1], u[2], MaxGenVars)
    \/ PerformBindings
    \/ \E typ \in GenTypes(type_bindings, rows) : Generalize(typ)
    \/ Instantiate(MaxGenVars)
    \/ Discard

SpecGen == Init /\ [][NextGen]_vars

(* The unification of a type with itself, from the caches IdemCaches *)
InitIdem ==
    /\ \E c \in IdemCaches : type_bindings = c.cache /\ rows = c.rows
    /\ CURRENT_LEVEL = INITIAL_LEVEL
    /\ diagnostics = <<>>
    /\ visits = <<>>
    /\ pending = None
    /\ aborted = FALSE
    /\ ast = <<>>
    /\ definition_infos = <<>>
    /\ call_stack = <<>>
    /\ events = <<>>

NextIdem ==
    \/ \E typ \in IdemTypes(type_bindings, rows) : TryUnify(typ, typ, Len(type_bindings))
    \/ Discard

SpecIdem == InitIdem /\ [][NextIdem]_vars

(* Unification of partial records alone *)
NextRows ==
    \/ \E fields \in RowFields : NextRowVariable(fields, MaxRowVars)
    \/ \E actual, expected \in StructTypes(rows) :
           TryUnify(actual, expected, MaxRowVars)
    \/ PerformBindings
    \/ Discard

SpecRows == Init /\ [][NextRows]_vars

(* One unification of any two types, of every arm of the match, from the   *)
(* caches KernelCaches.                                                    *)
MaxKernelVars == 8

RefT(mutability, lifetime) == Ref(Tag(mutability), Tag("Shared"), TypeVariable(lifetime))

(* the rigid generics of a cache: its variables that are no rows, but the last *)
Generics(cache, rows_) == TypeVars(cache, rows_) \ {Len(cache)}

(* the lifetime variable of the reference types: the last variable, when no row *)
Lifetimes(cache, rows_) == TypeVars(cache, rows_) \cap {Len(cache)}

KernelTypes(cache, rows_) ==
    LET M == {"Mutable", "Immutable"}
        L == Lifetimes(cache, rows_)
    IN  {IntT, BoolT, UserDefined(2), UserDefined(3), UserDefined(4), T(IntT), T(BoolT)}
        \cup {Tag(t) : t \in {"Mutable", "Immutable", "Owned", "Shared"}}
        \cup {NamedGeneric(v, "a") : v \in Generics(cache, rows_)}
        \cup {Function(ps, IntT, UnitT, NoEffects, va) :
                  ps \in {<<IntT>>, <<IntT, BoolT>>, <<BoolT, BoolT>>}, va \in BOOLEAN}
        \cup {RefT(m, l) : m \in M, l \in L}
        \cup {Fn(IntT, RefT(m, l)) : m \in M, l \in L}
        \cup {Fn(RefT(m, l), IntT) : m \in M, l \in L}
        \cup {Function(<<IntT>>, IntT, RefT(m, l), NoEffects, FALSE) : m \in M, l \in L}
        \cup StructTypes(rows_)

KernelCaches ==
    LET U(level) == Unbound(level, "Normal")
        C(level) == Unbound(level, "TypeConstructor")
        F(i) == <<[x |-> IntT], [x |-> BoolT], [y |-> BoolT], [z |-> IntT],
                  [x |-> IntT, y |-> BoolT], [x |-> IntT, y |-> BoolT, z |-> IntT]>>[i]
    IN  {[cache |-> <<U(1), U(1), U(1), C(1), Bound(IntT), U(1)>>, rows |-> EmptyMap],
         [cache |-> <<U(1), U(1), C(1), Bound(NamedGeneric(2, "a")), Bound(Tag("Mutable")), U(1)>>,
          rows |-> EmptyMap],
         [cache |-> <<U(1), U(1), U(1), U(1), U(1), U(1), U(1)>>,
          rows |-> [r \in 2..7 |-> F(r - 1)]],
         [cache |-> <<U(1), U(2), U(1), U(3), U(2)>>,
          rows |-> [r \in 2..5 |-> F(r + 1)]]}

InitKernel ==
    /\ \E c \in KernelCaches : type_bindings = c.cache /\ rows = c.rows
    /\ CURRENT_LEVEL = INITIAL_LEVEL
    /\ diagnostics = <<>>
    /\ visits = <<>>
    /\ pending = None
    /\ aborted = FALSE
    /\ ast = <<>>
    /\ definition_infos = <<>>
    /\ call_stack = <<>>
    /\ events = <<>>

NextKernel ==
    \/ \E actual, expected \in KernelTypes(type_bindings, rows) :
           TryUnify(actual, expected, MaxKernelVars)
    \/ Discard

SpecKernel == InitKernel /\ [][NextKernel]_vars

----------------------------------------------------------------------------
(* The traversal of a program.  A node of the program is a record of `ast`, *)
(* its children are indices of `ast`, node 1 is the program handed to       *)
(* infer_ast.  An Option is the empty sequence (None) or <<value>> (Some).  *)

PAIR_TYPE == 5        \* the TypeInfoId of the pair type (its fields are never asked for)
MaxAstDepth == 12     \* nested visits the traversal may hold before the stack is exhausted

Literal(kind) == [node |-> "Literal", kind |-> kind, typ |-> <<>>]
Variable(definition) == [node |-> "Variable", definition |-> definition, typ |-> <<>>]
TypeAnnotation(lhs, typ) == [node |-> "TypeAnnotation", lhs |-> lhs, typ |-> <<typ>>]
FunctionCall(function, args) ==
    [node |-> "FunctionCall", function |-> function, args |-> args, typ |-> <<>>]
Lambda(args, body) == [node |-> "Lambda", args |-> args, body |-> body, typ |-> <<>>]
Sequence(statements) == [node |-> "Sequence", statements |-> statements, typ |-> <<>>]
Definition(pattern, expr, level) ==
    [node |-> "Definition", pattern |-> pattern, expr |-> expr, level |-> level, typ |-> <<>>]
Extern(declarations, level) ==
    [node |-> "Extern", declarations |-> declarations, level |-> level, typ |-> <<>>]
Assignment(lhs, rhs) == [node |-> "Assignment", lhs |-> lhs, rhs |-> rhs, typ |-> <<>>]
MemberAccess(lhs, field, offset) ==
    [node |-> "MemberAccess", lhs |-> lhs, field |-> field, offset |-> offset, typ |-> <<>>]
Reference(mutability, expression) ==
    [node |-> "Reference", mutability |-> mutability, expression |-> expression, typ |-> <<>>]

(* DefinitionInfo: definition is the node the name is defined by, if it is  *)
(* the name of a Definition or of a declaration                             *)
DefinitionInfo(definition, mutable) ==
    [definition |-> definition, mutable |-> mutable, typ |-> <<>>,
     undergoing_type_inference |-> FALSE, mutually_recursive |-> FALSE]

(* the cache and the program as one value the helpers thread *)
Cache ==
    [type_bindings |-> type_bindings, diagnostics |-> diagnostics, ast |-> ast,
     definition_infos |-> definition_infos, call_stack |-> call_stack,
     CURRENT_LEVEL |-> CURRENT_LEVEL, events |-> events, aborted |-> aborted]

set_type(c, n, typ) == [c EXCEPT !.ast[n].typ = <<typ>>]
push_diagnostic(c, d) == [c EXCEPT !.diagnostics = Append(@, d)]
log(c, e) == [c EXCEPT !.events = Append(@, e)]

(* next_type_variable: the variable minted is the last of the cache *)
next_type_variable(c) ==
    [c EXCEPT !.type_bindings = next_type_variable_id(@, c.CURRENT_LEVEL)]

(* perform_bindings_or_push_error of the result r of a try_unify that was   *)
(* given error_kind for its diagnostic                                       *)
perform_bindings_or_push_error(r, error_kind, c) ==
    IF r.res = "Abort" THEN [c EXCEPT !.aborted = TRUE]
    ELSE IF r.res = "Ok" THEN [c EXCEPT !.type_bindings = perform(r, r.cache)]
    ELSE push_diagnostic([c EXCEPT !.type_bindings = r.cache], [kind |-> error_kind])

(* unify: try_unify, then perform_bindings_or_push_error *)
unify(actual, expected, error_kind, c) ==
    perform_bindings_or_push_error(try_unify(actual, expected, c.type_bindings),
                                   error_kind, c)

(* the variables the pair arm of bind_irrefutable_pattern mints for the     *)
(* elements before it unifies                                                *)
pattern_args_minted(n, c) ==
    IF c.ast[n].node = "FunctionCall"
    THEN [c EXCEPT !.type_bindings =
             @ \o [i \in 1..Len(c.ast[n].args) |-> Unbound(c.CURRENT_LEVEL, "Normal")]]
    ELSE c

(* the pair type of the pair arm over the variables minted after `first` *)
pattern_pair_type(n, first, c) ==
    TypeApplication(UserDefined(PAIR_TYPE),
                    [i \in 1..Len(c.ast[n].args) |-> TypeVariable(first + i)])

(* the unification the arm of bind_irrefutable_pattern taken for n asks     *)
(* for: none for a literal that is not the unit, a variable with no type    *)
(* yet, and any other syntax                                                 *)
pattern_unification(n, typ, c) ==
    LET node == c.ast[n]
    IN  IF node.node = "Literal" /\ node.kind = "Unit"
        THEN <<[actual |-> UnitT, expected |-> typ,
                error_kind |-> "ExpectedUnitTypeFromPattern"]>>
        ELSE IF node.node = "Variable" /\ c.definition_infos[node.definition].typ # <<>>
        THEN <<[actual |-> c.definition_infos[node.definition].typ[1].typ,
                expected |-> typ, error_kind |-> "VariableDoesNotMatchDeclaredType"]>>
        ELSE IF node.node = "TypeAnnotation"
        THEN <<[actual |-> typ, expected |-> node.typ[1],
                error_kind |-> "PatternTypeDoesNotMatchAnnotatedType"]>>
        ELSE IF node.node = "FunctionCall"
        THEN <<[actual |-> pattern_pair_type(n, Len(c.type_bindings), c),
                expected |-> typ, error_kind |-> "ExpectedPairTypeFromPattern"]>>
        ELSE <<>>

(* bind_irrefutable_pattern: c0 is the cache the call was entered with, c   *)
(* the cache after the unification of the arm taken                          *)
RECURSIVE bind_irrefutable_pattern(_, _, _, _)
pattern_unified(n, typ, should_generalize, c0, c) ==
    LET node == c.ast[n]
    IN  IF node.node = "Literal" THEN
            IF node.kind = "Unit" THEN set_type(c, n, UnitT)
            ELSE push_diagnostic(c, [kind |-> "PatternIsNotIrrefutable"])
        ELSE IF node.node = "Variable" THEN
            LET info == c0.definition_infos[node.definition]
                generalizing == should_generalize \/ (info.typ # <<>> /\ info.typ[1].poly)
                g == IF generalizing
                     THEN generalize(typ, c.type_bindings, c.CURRENT_LEVEL)
                     ELSE [panic |-> FALSE, generalized |-> MonoType(typ)]
            IN  IF g.panic THEN [c EXCEPT !.aborted = TRUE]
                ELSE [c EXCEPT !.ast[n].typ = <<g.generalized.typ>>,
                               !.definition_infos[node.definition].typ = <<g.generalized>>]
        ELSE IF node.node = "TypeAnnotation" THEN
            bind_irrefutable_pattern(node.lhs, typ, should_generalize, c)
        ELSE IF node.node = "FunctionCall" THEN
            LET pair_type == pattern_pair_type(n, Len(c0.type_bindings), c0)
                c2 == next_type_variable(c)
                function_type == Function(pair_type.args, pair_type, UnitT,
                                          TypeVariable(Len(c2.type_bindings)), FALSE)
                c3 == set_type(set_type(c2, node.function, function_type), n, pair_type)
                bind[i \in 0..Len(node.args)] ==
                    IF i = 0 THEN c3
                    ELSE bind_irrefutable_pattern(node.args[i], pair_type.args[i],
                                                  should_generalize, bind[i - 1])
            IN  bind[Len(node.args)]
        ELSE push_diagnostic(c, [kind |-> "InvalidSyntaxInIrrefutablePattern"])

bind_irrefutable_pattern(n, typ, should_generalize, c) ==
    pattern_unified(n, typ, should_generalize, c,
        IF pattern_unification(n, typ, c) = <<>> THEN c
        ELSE unify(pattern_unification(n, typ, c)[1].actual,
                   pattern_unification(n, typ, c)[1].expected,
                   pattern_unification(n, typ, c)[1].error_kind,
                   pattern_args_minted(n, c)))

(* get_pattern_type: [typ: Option, c], c with the variables it minted *)
RECURSIVE get_pattern_type(_, _)
get_pattern_type(n, c) ==
    LET node == c.ast[n]
    IN  IF node.node = "Literal" THEN
            [typ |-> IF node.kind = "Unit" THEN <<UnitT>> ELSE <<>>, c |-> c]
        ELSE IF node.node = "Variable" THEN
            LET info == c.definition_infos[node.definition]
            IN  IF info.typ = <<>>
                THEN [typ |-> <<TypeVariable(Len(c.type_bindings) + 1)>>,
                      c |-> next_type_variable(c)]
                ELSE IF info.typ[1].poly THEN [typ |-> <<>>, c |-> [c EXCEPT !.aborted = TRUE]]
                ELSE [typ |-> <<info.typ[1].typ>>, c |-> c]
        ELSE IF node.node = "TypeAnnotation" THEN [typ |-> node.typ, c |-> c]
        ELSE IF node.node = "FunctionCall" /\ Len(node.args) = 2 THEN
            LET arg1 == get_pattern_type(node.args[1], c)
                arg2 == get_pattern_type(node.args[2], arg1.c)
            IN  IF arg1.typ = <<>> THEN [typ |-> <<>>, c |-> arg1.c]
                ELSE IF arg2.typ = <<>> THEN [typ |-> <<>>, c |-> arg2.c]
                ELSE [typ |-> <<TypeApplication(UserDefined(PAIR_TYPE),
                                                <<arg1.typ[1], arg2.typ[1]>>)>>,
                      c |-> arg2.c]
        ELSE [typ |-> <<>>, c |-> c]

(* foreach_variable: the DefinitionInfoIds of the variables of a pattern in *)
(* the order met, with 0 where the diagnostic of the last arm is pushed     *)
RECURSIVE foreach_variable(_, _)
foreach_variable(n, nodes) ==
    LET node == nodes[n]
        each[i \in 0..(IF node.node = "FunctionCall" THEN Len(node.args) ELSE 0)] ==
            IF i = 0 THEN <<>> ELSE each[i - 1] \o foreach_variable(node.args[i], nodes)
    IN  IF node.node = "Variable" THEN <<node.definition>>
        ELSE IF node.node = "TypeAnnotation" THEN foreach_variable(node.lhs, nodes)
        ELSE IF node.node = "FunctionCall" THEN each[Len(node.args)]
        ELSE <<0>>

mark_id_in_progress(id, c) ==
    LET c1 == [c EXCEPT !.call_stack = Append(@, id),
                        !.definition_infos[id].undergoing_type_inference = TRUE]
    IN  IF c.definition_infos[id].typ = <<>>
        THEN [next_type_variable(c1) EXCEPT !.definition_infos[id].typ =
                  <<MonoType(TypeVariable(Len(c.type_bindings) + 1))>>]
        ELSE c1

(* mark_id_finished with no test of definition_is_mutually_recursive *)
mark_id_finished_unconditionally(id, c) ==
    [c EXCEPT !.call_stack = SubSeq(@, 1, Len(@) - 1),
              !.definition_infos[id].undergoing_type_inference = FALSE]

mark_id_finished(id, c) ==
    [c EXCEPT !.call_stack = SubSeq(@, 1, Len(@) - 1),
              !.definition_infos[id].undergoing_type_inference =
                  IF c.definition_infos[id].mutually_recursive THEN @ ELSE FALSE]

(* the closure handed to foreach_variable, applied along the pattern *)
RECURSIVE mark_pattern_ids_in_progress(_, _, _)
mark_pattern_ids_in_progress(ids, i, c) ==
    IF i > Len(ids) THEN c
    ELSE mark_pattern_ids_in_progress(ids, i + 1,
             IF ids[i] = 0
             THEN push_diagnostic(c, [kind |-> "InvalidSyntaxInIrrefutablePattern"])
             ELSE mark_id_in_progress(ids[i], c))

RECURSIVE finish_pattern(_, _, _)
finish_pattern(ids, i, c) ==
    IF i > Len(ids) THEN c
    ELSE finish_pattern(ids, i + 1,
             IF ids[i] = 0
             THEN push_diagnostic(c, [kind |-> "InvalidSyntaxInIrrefutablePattern"])
             ELSE mark_id_finished(ids[i], c))

(* initialize_function_type: the skeleton installed for a recursive function *)
initialize_function_type(n, c) ==
    LET definition == c.ast[n]
        lambda == c.ast[definition.expr]
        ids == foreach_variable(definition.pattern, c.ast)
        met[i \in 0..Len(ids)] ==
            IF i = 0 THEN [definition_id |-> 0, c |-> c]
            ELSE IF ids[i] = 0
            THEN [definition_id |-> met[i - 1].definition_id,
                  c |-> push_diagnostic(met[i - 1].c,
                                        [kind |-> "InvalidSyntaxInIrrefutablePattern"])]
            ELSE [definition_id |-> ids[i], c |-> met[i - 1].c]
        definition_id == met[Len(ids)].definition_id
        c0 == met[Len(ids)].c
        parameters[i \in 0..Len(lambda.args)] ==
            IF i = 0 THEN [typs |-> <<>>, c |-> c0, some |-> TRUE]
            ELSE IF ~parameters[i - 1].some THEN parameters[i - 1]
            ELSE LET typ == get_pattern_type(lambda.args[i], parameters[i - 1].c)
                 IN  [typs |-> parameters[i - 1].typs \o typ.typ, c |-> typ.c,
                      some |-> typ.typ # <<>>]
        params == parameters[Len(lambda.args)]
        body == params.c.ast[lambda.body].typ
        c1 == IF body = <<>> THEN next_type_variable(params.c) ELSE params.c
        return_type == IF body = <<>> THEN TypeVariable(Len(c1.type_bindings)) ELSE body[1]
        c2 == next_type_variable(next_type_variable(c1))
        function_type == Function(params.typs, return_type,
                                  TypeVariable(Len(c2.type_bindings) - 1),
                                  TypeVariable(Len(c2.type_bindings)), FALSE)
    IN  IF lambda.node # "Lambda" THEN c
        ELSE IF definition_id = 0 \/ c0.definition_infos[definition_id].typ # <<>> THEN c0
        ELSE IF ~params.some THEN params.c
        ELSE [c2 EXCEPT !.definition_infos[definition_id].typ = <<MonoType(function_type)>>]

(* update_mutual_recursion_sets: a reference to a definition still in       *)
(* progress makes it and the definitions entered after it one set           *)
update_mutual_recursion_sets(definition_id, c) ==
    LET at == {i \in DOMAIN c.call_stack : c.call_stack[i] = definition_id}
        inner == {c.call_stack[i] : i \in {j \in DOMAIN c.call_stack :
                                              \E k \in at : j > k}} \ {definition_id}
    IN  IF c.definition_infos[definition_id].undergoing_type_inference /\ inner # {}
        THEN [c EXCEPT !.definition_infos =
                 [id \in DOMAIN @ |->
                     IF id \in inner \cup {definition_id}
                     THEN [@[id] EXCEPT !.mutually_recursive = TRUE] ELSE @[id]]]
        ELSE c

(* the generalization of the names in ids *)
RECURSIVE generalize_all(_, _)
generalize_all(ids, c) ==
    IF ids = {} THEN c
    ELSE LET id == CHOOSE i \in ids : TRUE
             g == generalize(c.definition_infos[id].typ[1].typ, c.type_bindings,
                             c.CURRENT_LEVEL)
         IN  generalize_all(ids \ {id},
                 IF g.panic THEN [c EXCEPT !.aborted = TRUE]
                 ELSE [c EXCEPT !.definition_infos[id].typ = <<g.generalized>>,
                                !.definition_infos[id].mutually_recursive = FALSE,
                                !.definition_infos[id].undergoing_type_inference =
                                    id \in {c.call_stack[i] : i \in DOMAIN c.call_stack}])

(* try_generalize_definition: a definition of a lambda or of a variable is  *)
(* generalized, the members of a mutual-recursion set all at once when the  *)
(* last of them has finished its right-hand side                            *)
try_generalize_definition(n, c) ==
    LET definition == c.ast[n]
        ids == {id \in DOMAIN c.definition_infos :
                   \E i \in DOMAIN foreach_variable(definition.pattern, c.ast) :
                       foreach_variable(definition.pattern, c.ast)[i] = id}
        typed == {id \in ids : c.definition_infos[id].typ # <<>>}
        set == {id \in DOMAIN c.definition_infos : c.definition_infos[id].mutually_recursive}
        waiting == {id \in set \ ids : \E i \in DOMAIN c.call_stack : c.call_stack[i] = id}
    IN  IF c.ast[definition.expr].node \notin {"Lambda", "Variable"} THEN c
        ELSE IF ids \cap set = {} THEN generalize_all(typed, c)
        ELSE IF waiting # {} THEN c
        ELSE generalize_all({id \in typed \cup set : c.definition_infos[id].typ # <<>>}, c)

(* no test of the mutable flag of the definition *)
check_field_access_lhs_unchecked(n, c) == c

(* check_field_access_lhs_is_mutable(variable, false, cache) *)
check_field_access_lhs_is_mutable(n, c) ==
    LET variable == c.ast[n]
    IN  IF variable.node = "Variable" THEN
            IF c.definition_infos[variable.definition].mutable THEN c
            ELSE push_diagnostic(c, [kind |-> "MutRefToImmutableVariable",
                                     name |-> variable.definition])
        ELSE IF variable.node = "MemberAccess" THEN c
        ELSE push_diagnostic(c, [kind |-> "MutRefToTemporary"])

(* mut_polymorphically_shared_ref: the Ref type over the two variables minted *)
mut_polymorphically_shared_ref(c) ==
    [typ |-> Ref(Tag("Mutable"), TypeVariable(Len(c.type_bindings) + 1),
                 TypeVariable(Len(c.type_bindings) + 2)),
     c |-> next_type_variable(next_type_variable(c))]

(* the rest of issue_assignment_error, r the result of its try_unify: the   *)
(* bindings of a success are not performed                                  *)
assignment_error_issued(lhs, rhs, c, r) ==
    LET c1 == [c EXCEPT !.type_bindings = r.cache]
        inner == follow_bindings_in_cache(lhs, c1.type_bindings)
    IN  IF r.res = "Abort" THEN [c1 EXCEPT !.aborted = TRUE]
        ELSE IF r.res = "Err" THEN push_diagnostic(c1, [kind |-> "AssignToNonMutRef"])
        ELSE IF inner.tag # "TypeApplication" THEN [c1 EXCEPT !.aborted = TRUE]
        ELSE unify(inner.args[1], rhs, "AssignToWrongType", c1)

issue_assignment_error(lhs, rhs, c) ==
    LET var == TypeVariable(Len(c.type_bindings) + 1)
        ref == mut_polymorphically_shared_ref(next_type_variable(c))
        mutref == TypeApplication(ref.typ, <<var>>)
    IN  assignment_error_issued(lhs, rhs, ref.c,
                                try_unify(lhs, mutref, ref.c.type_bindings))

----------------------------------------------------------------------------
(* The visits of the traversal: a frame of `visits` is a call of infer_impl *)
(* that is waiting for a child; frame node 0 is infer_ast itself.           *)

Frame(n, previous_level, callsite, parameter_types) ==
    [node |-> n, pc |-> 1, previous_level |-> previous_level, callsite |-> callsite,
     parameter_types |-> parameter_types]

Top == visits[Len(visits)]

(* the children infer_impl visits, in the order it visits them *)
Children(n) ==
    IF n = 0 THEN <<1>>
    ELSE IF ast[n].node = "Sequence" THEN ast[n].statements
    ELSE IF ast[n].node = "Definition" THEN <<ast[n].expr>>
    ELSE IF ast[n].node = "Lambda" THEN <<ast[n].body>>
    ELSE IF ast[n].node = "Assignment" THEN <<ast[n].lhs, ast[n].rhs>>
    ELSE IF ast[n].node = "MemberAccess" THEN <<ast[n].lhs>>
    ELSE <<>>

(* the node the call on top visits next: 0 when it has none left *)
Todo ==
    IF visits = <<>> \/ aborted \/ pending # None THEN -1
    ELSE IF Top.pc <= Len(Children(Top.node)) THEN Children(Top.node)[Top.pc]
    ELSE 0

TodoIs(kind) == Todo > 0 /\ ast[Todo].node = kind
Returning(kind) == Todo = 0 /\ Top.node > 0 /\ ast[Top.node].node = kind

(* the child returned to the call on top *)
Returned(vs) == [vs EXCEPT ![Len(vs)].pc = @ + 1]
Popped == Returned(SubSeq(visits, 1, Len(visits) - 1))

Commit(c, vs) ==
    /\ type_bindings' = c.type_bindings
    /\ diagnostics' = c.diagnostics
    /\ ast' = c.ast
    /\ definition_infos' = c.definition_infos
    /\ call_stack' = c.call_stack
    /\ CURRENT_LEVEL' = c.CURRENT_LEVEL
    /\ events' = c.events
    /\ aborted' = (c.aborted \/ Len(vs) > MaxAstDepth)
    /\ visits' = vs
    /\ UNCHANGED <<rows, pending>>

Event(kind, n, c) == log(c, [kind |-> kind, node |-> n, level |-> c.CURRENT_LEVEL])

(* infer_ast up to the visit of the program *)
InferAst ==
    /\ visits = <<>> /\ events = <<>> /\ ~aborted /\ pending = None
    /\ Commit(Event("infer_ast", 0, [Cache EXCEPT !.CURRENT_LEVEL = INITIAL_LEVEL]),
              <<Frame(0, CURRENT_LEVEL, 0, <<>>)>>)

(* the rest of infer_ast *)
InferAstReturn ==
    /\ Todo = 0 /\ Top.node = 0
    /\ Commit(Event("done", 0, [Cache EXCEPT !.CURRENT_LEVEL = INITIAL_LEVEL - 1]), <<>>)

(* Literal::infer_impl: an integer literal carries its kind *)
InferLiteral ==
    /\ TodoIs("Literal")
    /\ Commit(set_type(Cache, Todo, IF ast[Todo].kind = "Unit" THEN UnitT ELSE IntT),
              Returned(visits))

(* CURRENT_LEVEL.store(previous_level): the counter is left as it was lowered *)
restore_level_skipped(c, previous_level) == c

(* CURRENT_LEVEL.store(previous_level) *)
restore_level(c, previous_level) == [c EXCEPT !.CURRENT_LEVEL = previous_level]

(* the end of Variable::infer_impl, s the type found for the definition *)
instantiate_variable(n, s, c) ==
    LET c1 == update_mutual_recursion_sets(c.ast[n].definition, c)
        r == instantiate(s, c1.type_bindings, c1.CURRENT_LEVEL)
    IN  set_type([c1 EXCEPT !.type_bindings = r.cache], n, r.typ)

(* what Variable::infer_impl does once infer_nested_definition has returned *)
nested_definition_inferred(n, c) ==
    LET info == c.definition_infos[c.ast[n].definition]
    IN  IF info.typ = <<>> THEN [c EXCEPT !.aborted = TRUE]
        ELSE instantiate_variable(n, info.typ[1], c)

(* Variable::infer_impl where the type of the definition is known or the    *)
(* variable has no definition to infer it from                              *)
InferVariable ==
    /\ TodoIs("Variable")
    /\ LET info == definition_infos[ast[Todo].definition]
       IN  /\ info.typ # <<>> \/ info.definition = <<>>
           /\ IF info.typ # <<>>
              THEN Commit(instantiate_variable(Todo, info.typ[1], Cache), Returned(visits))
              ELSE LET typ == MonoType(TypeVariable(Len(type_bindings) + 1))
                       c == [next_type_variable(Cache) EXCEPT
                                !.definition_infos[ast[Todo].definition].typ = <<typ>>]
                   IN  Commit(instantiate_variable(Todo, typ, c), Returned(visits))

(* Definition::infer_impl with no test of self.typ: every visit infers anew *)
enter_definition_again(n, callsite, c, vs) ==
    LET definition == c.ast[n]
        c1 == mark_pattern_ids_in_progress(
                  foreach_variable(definition.pattern, c.ast), 1,
                  initialize_function_type(n, set_type(c, n, UnitT)))
        c2 == Event("rhs", n, [Event("visit", n, c1) EXCEPT
                                  !.CURRENT_LEVEL = definition.level])
    IN  [c |-> c2, vs |-> Append(vs, Frame(n, c.CURRENT_LEVEL, callsite, <<>>))]

(* Definition::infer_impl up to the inference of the right-hand side; the   *)
(* call returns at once where the definition was visited before             *)
enter_definition(n, callsite, c, vs) ==
    IF c.ast[n].typ # <<>>
    THEN [c |-> IF callsite = 0 THEN set_type(c, n, UnitT)
                ELSE nested_definition_inferred(callsite, set_type(c, n, UnitT)),
          vs |-> Returned(vs)]
    ELSE LET definition == c.ast[n]
             c1 == mark_pattern_ids_in_progress(
                       foreach_variable(definition.pattern, c.ast), 1,
                       initialize_function_type(n, set_type(c, n, UnitT)))
             c2 == Event("rhs", n, [Event("visit", n, c1) EXCEPT
                                       !.CURRENT_LEVEL = definition.level])
         IN  [c |-> c2, vs |-> Append(vs, Frame(n, c.CURRENT_LEVEL, callsite, <<>>))]

InferDefinition ==
    /\ TodoIs("Definition")
    /\ LET e == enter_definition(Todo, 0, Cache, visits) IN Commit(e.c, e.vs)

(* infer_nested_definition of a Definition, from Variable::infer_impl *)
InferNestedDefinition ==
    /\ TodoIs("Variable")
    /\ LET info == definition_infos[ast[Todo].definition]
       IN  /\ info.typ = <<>> /\ info.definition # <<>>
           /\ ast[info.definition[1]].node = "Definition"
           /\ LET e == enter_definition(info.definition[1], Todo, Cache, visits)
              IN  Commit(e.c, e.vs)

(* Definition::infer_impl from the fix-up of the pattern's type on, c the   *)
(* cache bind_irrefutable_pattern has left                                  *)
definition_bound(n, previous_level, c) ==
    LET definition == c.ast[n]
        c3 == IF c.ast[definition.pattern].typ = <<>>
              THEN set_type(c, definition.pattern, c.ast[definition.expr].typ[1]) ELSE c
        c4 == try_generalize_definition(n, Event("generalize", n, c3))
        c5 == finish_pattern(foreach_variable(definition.pattern, c.ast), 1,
                             restore_level(c4, previous_level))
    IN  Event("return", n, set_type(c5, n, UnitT))

(* the Variable::infer_impl that asked for the definition, if one did *)
returned_to_callsite(callsite, c) ==
    IF callsite = 0 THEN c ELSE nested_definition_inferred(callsite, c)

(* the rest of Definition::infer_impl, and of the Variable::infer_impl that *)
(* asked for the definition                                                 *)
DefinitionReturn ==
    /\ Returning("Definition")
    /\ Commit(returned_to_callsite(Top.callsite,
                  definition_bound(Top.node, Top.previous_level,
                      bind_irrefutable_pattern(
                          ast[Top.node].pattern, ast[ast[Top.node].expr].typ[1], FALSE,
                          Event("bind", Top.node,
                                [Event("rhs_returned", Top.node, Cache) EXCEPT
                                    !.CURRENT_LEVEL = ast[Top.node].level - 1])))),
              Popped)

(* Extern::infer_impl *)
infer_extern(n, c) ==
    LET declarations == c.ast[n].declarations
        c1 == [Event("visit", n, c) EXCEPT !.CURRENT_LEVEL = c.ast[n].level]
        bind[i \in 0..Len(declarations)] ==
            IF i = 0 THEN c1
            ELSE bind_irrefutable_pattern(bind[i - 1].ast[declarations[i]].lhs,
                                          bind[i - 1].ast[declarations[i]].typ[1],
                                          TRUE, bind[i - 1])
    IN  Event("return", n,
              set_type(restore_level(bind[Len(declarations)], c.CURRENT_LEVEL), n, UnitT))

InferExtern ==
    /\ TodoIs("Extern")
    /\ Commit(infer_extern(Todo, Cache), Returned(visits))

(* infer_nested_definition of a declaration, from Variable::infer_impl *)
InferNestedExtern ==
    /\ TodoIs("Variable")
    /\ LET definition_id == ast[Todo].definition
           info == definition_infos[definition_id]
       IN  /\ info.typ = <<>> /\ info.definition # <<>>
           /\ ast[info.definition[1]].node = "Extern"
           /\ Commit(nested_definition_inferred(Todo,
                         mark_id_finished(definition_id,
                             infer_extern(info.definition[1],
                                          mark_id_in_progress(definition_id, Cache)))),
                     Returned(visits))

(* Sequence::infer_impl *)
InferSequence ==
    /\ TodoIs("Sequence")
    /\ Commit(Cache, Append(visits, Frame(Todo, CURRENT_LEVEL, 0, <<>>)))

SequenceReturn ==
    /\ Returning("Sequence")
    /\ LET statements == ast[Top.node].statements
       IN  Commit(set_type(Cache, Top.node, ast[statements[Len(statements)]].typ[1]), Popped)

(* Lambda::infer_impl up to the inference of the body: no closure           *)
(* environment, no return type given                                        *)
InferLambda ==
    /\ TodoIs("Lambda")
    /\ LET args == ast[Todo].args
           parameter_types == [i \in 1..Len(args) |-> TypeVariable(Len(type_bindings) + i)]
           c == [Cache EXCEPT !.type_bindings =
                    @ \o [i \in 1..Len(args) |-> Unbound(CURRENT_LEVEL, "Normal")]]
           bind[i \in 0..Len(args)] ==
               IF i = 0 THEN c
               ELSE bind_irrefutable_pattern(args[i], parameter_types[i], FALSE, bind[i - 1])
       IN  Commit(bind[Len(args)],
                  Append(visits, Frame(Todo, CURRENT_LEVEL, 0, parameter_types)))

(* the rest of Lambda::infer_impl: the body has no effects *)
LambdaReturn ==
    /\ Returning("Lambda")
    /\ Commit(set_type(Cache, Top.node,
                       Function(Top.parameter_types, ast[ast[Top.node].body].typ[1],
                                UnitT, NoEffects, FALSE)),
              Popped)

(* Assignment::infer_impl *)
InferAssignment ==
    /\ TodoIs("Assignment")
    /\ Commit(Cache, Append(visits, Frame(Todo, CURRENT_LEVEL, 0, <<>>)))

(* the second try_unify of Assignment::infer_impl has returned r *)
assigned_through_mut_ref(lhs, rhs, c, r) ==
    IF r.res = "Abort" THEN [c EXCEPT !.aborted = TRUE, !.type_bindings = r.cache]
    ELSE IF r.res = "Ok" THEN [c EXCEPT !.type_bindings = perform(r, r.cache)]
    ELSE issue_assignment_error(lhs, rhs, [c EXCEPT !.type_bindings = r.cache])

(* Assignment::infer_impl where the first try_unify has failed *)
assign_through_mut_ref(lhs, rhs, mut_ref) ==
    assigned_through_mut_ref(lhs, rhs, mut_ref.c,
        try_unify(lhs, TypeApplication(mut_ref.typ, <<rhs>>), mut_ref.c.type_bindings))

(* the first try_unify of Assignment::infer_impl has returned direct *)
assigned_directly(n, lhs, rhs, c, direct) ==
    IF direct.res = "Abort" THEN [c EXCEPT !.aborted = TRUE]
    ELSE IF direct.res = "Ok"
    THEN [check_field_access_lhs_is_mutable(c.ast[n].lhs, c) EXCEPT
             !.ast = [Append(@, Reference("Mutable", c.ast[n].lhs))
                         EXCEPT ![n].lhs = Len(c.ast) + 1],
             !.type_bindings = perform(direct, direct.cache)]
    ELSE assign_through_mut_ref(lhs, rhs,
             mut_polymorphically_shared_ref([c EXCEPT !.type_bindings = direct.cache]))

assignment(n, c) ==
    assigned_directly(n, c.ast[c.ast[n].lhs].typ[1], c.ast[c.ast[n].rhs].typ[1], c,
        try_unify(c.ast[c.ast[n].lhs].typ[1], c.ast[c.ast[n].rhs].typ[1],
                  c.type_bindings))

AssignmentReturn ==
    /\ Returning("Assignment")
    /\ Commit(set_type(assignment(Top.node, Cache), Top.node, UnitT), Popped)

(* MemberAccess::infer_impl *)
InferMemberAccess ==
    /\ TodoIs("MemberAccess")
    /\ Commit(Cache, Append(visits, Frame(Todo, CURRENT_LEVEL, 0, <<>>)))

(* ref_of, for a mutability that is not polymorphic: [typ, c] *)
ref_of(mutability, typ, c) ==
    [typ |-> TypeApplication(Ref(Tag(mutability), TypeVariable(Len(c.type_bindings) + 1),
                                 TypeVariable(Len(c.type_bindings) + 2)), <<typ>>),
     c |-> next_type_variable(next_type_variable(c))]

(* the end of MemberAccess::infer_impl: bindings is the result it has kept, *)
(* of a try_unify that was given error_kind                                 *)
member_accessed(n, field_type, bindings, error_kind, c) ==
    LET c1 == perform_bindings_or_push_error(bindings, error_kind, c)
    IN  IF c.ast[n].offset = <<>> THEN set_type(c1, n, field_type)
        ELSE set_type(ref_of(c.ast[n].offset[1], field_type, c1).c, n,
                      ref_of(c.ast[n].offset[1], field_type, c1).typ)

(* the result of the immutable reference is the result kept *)
immutable_deref_kept(n, field_type, c, unification_with_immutable_deref) ==
    IF unification_with_immutable_deref.res = "Abort" THEN [c EXCEPT !.aborted = TRUE]
    ELSE member_accessed(n, field_type, unification_with_immutable_deref,
                         "NoFieldOfType", c)

(* the immutable reference has been tried for the diagnostic: the result    *)
(* kept is the error of the reference tried before if it unifies, the error *)
(* of the direct attempt if not                                             *)
immutable_deref_tried(n, field_type, c, unification_with_immutable_deref) ==
    IF unification_with_immutable_deref.res = "Abort" THEN [c EXCEPT !.aborted = TRUE]
    ELSE member_accessed(n, field_type,
                         [unification_with_immutable_deref EXCEPT !.res = "Err"],
                         IF unification_with_immutable_deref.res = "Ok"
                         THEN "ExpectedMutable" ELSE "NoFieldOfType",
                         c)

try_immutable_deref(n, lhs, field_type, struct_imm_ref) ==
    immutable_deref_tried(n, field_type, struct_imm_ref.c,
        try_unify(lhs, struct_imm_ref.typ, struct_imm_ref.c.type_bindings))

(* the reference to the partial struct has been tried *)
deref_tried(n, lhs, struct_type, c, bindings) ==
    IF bindings.res = "Abort" THEN [c EXCEPT !.aborted = TRUE]
    ELSE IF bindings.res = "Ok"
    THEN member_accessed(n, struct_type.fields[c.ast[n].field], bindings,
                         "ExpectedMutable", c)
    ELSE try_immutable_deref(n, lhs, struct_type.fields[c.ast[n].field],
             ref_of("Immutable", struct_type, [c EXCEPT !.type_bindings = bindings.cache]))

try_deref(n, lhs, struct_type, struct_ref) ==
    deref_tried(n, lhs, struct_type, struct_ref.c,
                try_unify(lhs, struct_ref.typ, struct_ref.c.type_bindings))

(* the partial struct has been tried *)
direct_tried(n, lhs, struct_type, c, bindings) ==
    IF bindings.res = "Abort" THEN [c EXCEPT !.aborted = TRUE]
    ELSE IF bindings.res = "Ok"
    THEN member_accessed(n, struct_type.fields[c.ast[n].field], bindings, "NoFieldOfType",
             IF c.ast[n].offset = <<"Mutable">>
             THEN check_field_access_lhs_is_mutable(c.ast[n].lhs, c) ELSE c)
    ELSE try_deref(n, lhs, struct_type,
             ref_of(IF c.ast[n].offset = <<>> THEN "Immutable" ELSE c.ast[n].offset[1],
                    struct_type, [c EXCEPT !.type_bindings = bindings.cache]))

(* the partial struct of the field, over the two variables minted for it *)
member_struct_type(n, c) ==
    Struct([f \in {c.ast[n].field} |-> TypeVariable(Len(c.type_bindings) + 1)],
           Len(c.type_bindings) + 2)

member_access(n, c) ==
    direct_tried(n, c.ast[c.ast[n].lhs].typ[1], member_struct_type(n, c),
                 next_type_variable(next_type_variable(c)),
                 try_unify(c.ast[c.ast[n].lhs].typ[1], member_struct_type(n, c),
                           next_type_variable(next_type_variable(c)).type_bindings))

MemberAccessReturn ==
    /\ Returning("MemberAccess")
    /\ Commit(member_access(Top.node, Cache), Popped)

----------------------------------------------------------------------------
(* The programs name resolution hands to infer_ast.  A Definition at the    *)
(* top level has level INITIAL_LEVEL + 1, a Definition within the           *)
(* right-hand side of another one level more, a declaration the level of    *)
(* its scope.                                                               *)

(*  f = fn x -> (g; f; g)                                                   *)
(*  g = fn () -> (f; h)                                                     *)
(*  h = 1                                                                   *)
(*  h                                                                       *)
RecursiveProgram ==
    [definition_infos |->
        <<DefinitionInfo(<<2>>, FALSE), DefinitionInfo(<<10>>, FALSE),
          DefinitionInfo(<<17>>, FALSE), DefinitionInfo(<<>>, FALSE)>>,
     ast |->
        <<Sequence(<<2, 10, 17, 20>>),
          Definition(3, 4, INITIAL_LEVEL + 1), Variable(1),
          Lambda(<<5>>, 6), Variable(4),
          Sequence(<<7, 8, 9>>), Variable(2), Variable(1), Variable(2),
          Definition(11, 12, INITIAL_LEVEL + 1), Variable(2),
          Lambda(<<13>>, 14), Literal("Unit"),
          Sequence(<<15, 16>>), Variable(1), Variable(3),
          Definition(18, 19, INITIAL_LEVEL + 1), Variable(3), Literal("Integer"),
          Variable(3)>>]

(*  a = (b = (g; e); b)                                                     *)
(*  g = 1                                                                   *)
(*  extern e: Int                                                           *)
(*  extern k: Int -> Int                                                    *)
NestedProgram ==
    [definition_infos |->
        <<DefinitionInfo(<<2>>, FALSE), DefinitionInfo(<<5>>, FALSE),
          DefinitionInfo(<<11>>, FALSE), DefinitionInfo(<<14>>, FALSE),
          DefinitionInfo(<<17>>, FALSE)>>,
     ast |->
        <<Sequence(<<2, 11, 14, 17>>),
          Definition(3, 4, INITIAL_LEVEL + 1), Variable(1),
          Sequence(<<5, 10>>),
          Definition(6, 7, INITIAL_LEVEL + 2), Variable(2),
          Sequence(<<8, 9>>), Variable(3), Variable(4),
          Variable(2),
          Definition(12, 13, INITIAL_LEVEL + 1), Variable(3), Literal("Integer"),
          Extern(<<15>>, INITIAL_LEVEL), TypeAnnotation(16, IntT), Variable(4),
          Extern(<<18>>, INITIAL_LEVEL), TypeAnnotation(19, Fn(IntT, IntT)), Variable(5)>>]

(*  (x, 3) = p                                                              *)
(*  4 = 5                                                                   *)
(*  fn 6 -> ()                                                              *)
(*  (y: Int) = fn (!z) -> ()                                                *)
PatternProgram ==
    [definition_infos |->
        <<DefinitionInfo(<<>>, FALSE), DefinitionInfo(<<2>>, FALSE),
          DefinitionInfo(<<>>, FALSE), DefinitionInfo(<<14>>, FALSE),
          DefinitionInfo(<<>>, FALSE)>>,
     ast |->
        <<Sequence(<<2, 8, 11, 14>>),
          Definition(3, 7, INITIAL_LEVEL + 1),
          FunctionCall(4, <<5, 6>>), Variable(1), Variable(2), Literal("Integer"),
          Variable(3),
          Definition(9, 10, INITIAL_LEVEL + 1), Literal("Integer"), Literal("Integer"),
          Lambda(<<12>>, 13), Literal("Integer"), Literal("Unit"),
          Definition(15, 17, INITIAL_LEVEL + 1), TypeAnnotation(16, IntT), Variable(4),
          Lambda(<<18>>, 20), Reference("Mutable", 19), Variable(5), Literal("Unit")>>]

(*  x = 1       each of x and y mutable or not                              *)
(*  y = 2                                                                   *)
(*  x := 3                                                                  *)
(*  y := 4                                                                  *)
(*  y := ()                                                                 *)
(*  z := 5      z and w are names with no definition to infer them from     *)
(*  w := ()                                                                 *)
AssignmentProgram(x, y) ==
    [definition_infos |->
        <<DefinitionInfo(<<2>>, x), DefinitionInfo(<<5>>, y),
          DefinitionInfo(<<>>, FALSE), DefinitionInfo(<<>>, TRUE)>>,
     ast |->
        <<Sequence(<<2, 5, 8, 11, 14, 17, 20>>),
          Definition(3, 4, INITIAL_LEVEL + 1), Variable(1), Literal("Integer"),
          Definition(6, 7, INITIAL_LEVEL + 1), Variable(2), Literal("Integer"),
          Assignment(9, 10), Variable(1), Literal("Integer"),
          Assignment(12, 13), Variable(2), Literal("Integer"),
          Assignment(15, 16), Variable(2), Literal("Unit"),
          Assignment(18, 19), Variable(3), Literal("Integer"),
          Assignment(21, 22), Variable(4), Literal("Unit")>>]

(*  extern r: Ref mut Int                                                   *)
(*  r := 5                                                                  *)
(*  r := ()                                                                 *)
(*  fn z -> (z := fn () -> z)                                               *)
ReferenceProgram ==
    [definition_infos |-> <<DefinitionInfo(<<2>>, FALSE), DefinitionInfo(<<>>, FALSE)>>,
     ast |->
        <<Sequence(<<2, 5, 8, 11>>),
          Extern(<<3>>, INITIAL_LEVEL),
          TypeAnnotation(4, TypeApplication(Ref(Tag("Mutable"), Tag("Shared"),
                                                TypeVariable(1)), <<IntT>>)),
          Variable(1),
          Assignment(6, 7), Variable(1), Literal("Integer"),
          Assignment(9, 10), Variable(1), Literal("Unit"),
          Lambda(<<12>>, 13), Variable(2),
          Assignment(14, 15), Variable(2),
          Lambda(<<16>>, 17), Literal("Unit"), Variable(2)>>]

(*  extern p: P                 P the type  x: Int, y: Bool                 *)
(*  extern q: Ref imm P                                                     *)
(*  extern m: Ref mut P                                                     *)
(*  extern n: Ref imm (Ref imm P)                                           *)
(*  p.x;  q.x;  m.x;  p.z;  q.x.y;  n.x  each access with the offset given  *)
MemberProgram(offset) ==
    [definition_infos |->
        <<DefinitionInfo(<<2>>, FALSE), DefinitionInfo(<<5>>, FALSE),
          DefinitionInfo(<<8>>, TRUE), DefinitionInfo(<<22>>, FALSE)>>,
     ast |->
        <<Sequence(<<2, 5, 8, 22, 11, 13, 15, 17, 19, 25>>),
          Extern(<<3>>, INITIAL_LEVEL), TypeAnnotation(4, UserDefined(3)), Variable(1),
          Extern(<<6>>, INITIAL_LEVEL),
          TypeAnnotation(7, TypeApplication(Ref(Tag("Immutable"), Tag("Shared"),
                                                TypeVariable(1)), <<UserDefined(3)>>)),
          Variable(2),
          Extern(<<9>>, INITIAL_LEVEL),
          TypeAnnotation(10, TypeApplication(Ref(Tag("Mutable"), Tag("Shared"),
                                                 TypeVariable(1)), <<UserDefined(3)>>)),
          Variable(3),
          MemberAccess(12, "x", offset), Variable(1),
          MemberAccess(14, "x", offset), Variable(2),
          MemberAccess(16, "x", offset), Variable(3),
          MemberAccess(18, "z", offset), Variable(1),
          MemberAccess(20, "y", offset), MemberAccess(21, "x", offset), Variable(2),
          Extern(<<23>>, INITIAL_LEVEL),
          TypeAnnotation(24,
              TypeApplication(Ref(Tag("Immutable"), Tag("Shared"), TypeVariable(1)),
                  <<TypeApplication(Ref(Tag("Immutable"), Tag("Shared"), TypeVariable(1)),
                                    <<UserDefined(3)>>)>>)),
          Variable(4),
          MemberAccess(26, "x", offset), Variable(4)>>]

Offsets == {<<>>, <<"Immutable">>, <<"Mutable">>}

Programs ==
    {RecursiveProgram, NestedProgram, PatternProgram, ReferenceProgram}
    \cup {MemberProgram(offset) : offset \in Offsets}
    \cup {AssignmentProgram(x, y) : x, y \in BOOLEAN}

InitAst ==
    /\ type_bindings = <<Unbound(INITIAL_LEVEL, "Normal")>>
    /\ CURRENT_LEVEL = INITIAL_LEVEL
    /\ diagnostics = <<>>
    /\ visits = <<>>
    /\ rows = EmptyMap
    /\ pending = None
    /\ aborted = FALSE
    /\ \E program \in Programs :
           /\ ast = program.ast
           /\ definition_infos = program.definition_infos
    /\ call_stack = <<>>
    /\ events = <<>>

NextAst ==
    \/ InferAst
    \/ InferLiteral
    \/ InferVariable
    \/ InferDefinition
    \/ InferNestedDefinition
    \/ DefinitionReturn
    \/ InferExtern
    \/ InferNestedExtern
    \/ InferSequence
    \/ SequenceReturn
    \/ InferLambda
    \/ LambdaReturn
    \/ InferAssignment
    \/ AssignmentReturn
    \/ InferMemberAccess
    \/ MemberAccessReturn
    \/ InferAstReturn

SpecAst == InitAst /\ [][NextAst]_vars

----------------------------------------------------------------------------
(* Vocabulary of the properties *)

(* the variable ids a type names: type variables, named generics, rows, extensions *)
RECURSIVE TypeVarsOf(_)
TypeVarsOf(typ) ==
    CASE typ.tag \in {"Primitive", "UserDefined", "Tag"} -> {}
      [] typ.tag \in {"TypeVariable", "NamedGeneric"} -> {typ.id}
      [] typ.tag = "Function" ->
            UNION {TypeVarsOf(typ.parameters[i]) : i \in DOMAIN typ.parameters}
            \cup TypeVarsOf(typ.return_type) \cup TypeVarsOf(typ.environment)
            \cup TypeVarsOf(typ.effects)
      [] typ.tag = "TypeApplication" ->
            TypeVarsOf(typ.constructor) \cup UNION {TypeVarsOf(typ.args[i]) : i \in DOMAIN typ.args}
      [] typ.tag = "Ref" ->
            TypeVarsOf(typ.mutability) \cup TypeVarsOf(typ.sharedness) \cup TypeVarsOf(typ.lifetime)
      [] typ.tag = "Struct" ->
            {typ.rest} \cup UNION {TypeVarsOf(typ.fields[n]) : n \in DOMAIN typ.fields}
      [] typ.tag = "Effects" -> IF typ.extension = 0 THEN {} ELSE {typ.extension}

(* the ids reachable from the ids of S by following structure and bindings *)
RECURSIVE ReachableFrom(_, _)
ReachableFrom(S, cache) ==
    LET more == S \cup UNION {TypeVarsOf(cache[i].typ) : i \in {j \in S : cache[j].bound}}
    IN  IF more = S THEN S ELSE ReachableFrom(more, cache)

Acyclic(cache) ==
    \A id \in DOMAIN cache :
        cache[id].bound => id \notin ReachableFrom(TypeVarsOf(cache[id].typ), cache)

(* the Unbound variables reachable inside a type *)
FreeVars(typ, cache) == {v \in ReachableFrom(TypeVarsOf(typ), cache) : ~cache[v].bound}

(* the cache as the unifier reads it through staged bindings *)
Overlay(cache, bindings) ==
    [id \in DOMAIN cache |->
        IF ~cache[id].bound /\ id \in DOMAIN bindings THEN Bound(bindings[id]) ELSE cache[id]]

(* a type with every binding of the cache followed *)
Resolve(typ, cache) == bind_typevars(typ, EmptyMap, cache)

TryUnifyStep == pending = None /\ pending'.kind = "unify"

----------------------------------------------------------------------------
(* C1: unification is staged and atomic.  While try_unify runs, no entry   *)
(* the cache already had changes; committing a failed result installs      *)
(* nothing and pushes exactly one diagnostic; committing a successful      *)
(* result installs every staged binding, changes no other entry and pushes *)
(* no diagnostic.                                                          *)
C1_StagedAtomic ==
    [][/\ TryUnifyStep =>
            /\ Len(type_bindings') >= Len(type_bindings)
            /\ \A id \in DOMAIN type_bindings : type_bindings'[id] = type_bindings[id]
            /\ diagnostics' = diagnostics
       /\ PerformBindingsOrPushError /\ pending.res = "Err" =>
            /\ type_bindings' = type_bindings
            /\ Len(diagnostics') = Len(diagnostics) + 1
       /\ PerformBindingsOrPushError /\ pending.res = "Ok" =>
            /\ DOMAIN type_bindings' = DOMAIN type_bindings
            /\ \A id \in DOMAIN type_bindings :
                   type_bindings'[id] = IF id \in DOMAIN pending.bindings
                                        THEN Bound(pending.bindings[id])
                                        ELSE type_bindings[id]
            /\ diagnostics' = diagnostics]_vars

(* a failed unification has been reported and a successful one committed *)
C1_Witness ==
    /\ pending = None
    /\ Len(diagnostics) = 1
    /\ \E id \in InferenceVars(type_bindings) : type_bindings[id].bound

----------------------------------------------------------------------------
(* C2: a variable that is Bound in the cache stays Bound to the same type  *)
(* in every later step.                                                    *)
C2_BoundNeverReverts ==
    [][\A id \in DOMAIN type_bindings :
           type_bindings[id].bound =>
               id \in DOMAIN type_bindings' /\ type_bindings'[id] = type_bindings[id]]_vars

(* a second commit has happened while a variable was bound *)
C2_Witness ==
    /\ pending = None
    /\ Len(type_bindings) = MaxVars
    /\ \A id \in InferenceVars(type_bindings) : type_bindings[id].bound

----------------------------------------------------------------------------
(* C3: occurs safety.  Unifying an unbound variable with a type other than *)
(* itself in which it is reachable, through structure or through the       *)
(* bindings of the cache, fails with nothing staged; the same holds inside *)
(* a unification for a variable reachable only through the bindings staged *)
(* so far; and unify(a, b) followed by unify(b, a) both succeed, the       *)
(* second staging nothing.                                                 *)
OccursIn(id, typ, cache) ==
    /\ ~cache[id].bound
    /\ follow_bindings_in_cache(typ, cache) # TypeVariable(id)
    /\ id \in FreeVars(typ, cache)

C3_OccursSafety ==
    pending.kind = "unify" =>
        /\ \A id \in InferenceVars(type_bindings) :
               /\ pending.actual = TypeVariable(id)
               /\ OccursIn(id, pending.expected, type_bindings)
               => pending.res = "Err" /\ pending.bindings = EmptyMap
        /\ pending.res = "Ok" =>
               LET staged == Overlay(type_bindings, pending.bindings)
                   st == [res |-> "Ok", bindings |-> pending.bindings,
                          level_bindings |-> pending.level_bindings, cache |-> type_bindings]
               IN  \A id \in InferenceVars(type_bindings) :
                   \A typ \in InputTypes(type_bindings, rows) :
                       OccursIn(id, typ, staged) =>
                           LET r == try_unify_with_bindings_inner(TypeVariable(id), typ, st,
                                                                  StackDepth)
                           IN  r.res = "Err" /\ r.bindings = pending.bindings
        /\ \A a, b \in InferenceVars(type_bindings) :
               /\ a # b
               /\ pending.actual = TypeVariable(a)
               /\ pending.expected = TypeVariable(b)
               /\ ~type_bindings[a].bound
               /\ ~type_bindings[b].bound
               => pending.res = "Ok" /\ pending.bindings = MapInsert(EmptyMap, a, TypeVariable(b))
        /\ \A a, b \in InferenceVars(type_bindings) :
               /\ pending.actual = TypeVariable(b)
               /\ pending.expected = TypeVariable(a)
               /\ type_bindings[a] = Bound(TypeVariable(b))
               /\ ~type_bindings[b].bound
               => pending.res = "Ok" /\ pending.bindings = EmptyMap

(* a variable has been unified with a type that holds it behind a binding of the cache *)
C3_Witness ==
    /\ pending.kind = "unify"
    /\ pending.res = "Err"
    /\ \E a, b \in InferenceVars(type_bindings) :
           /\ a # b
           /\ pending.actual = TypeVariable(a)
           /\ pending.expected = T(TypeVariable(b))
           /\ type_bindings[b].bound
           /\ OccursIn(a, pending.expected, type_bindings)

----------------------------------------------------------------------------
(* C4: after any sequence of committed unifications the binding graph of   *)
(* the cache is acyclic: no Bound variable, row variables included, is     *)
(* reachable from its own binding.                                         *)
C4_AcyclicBindings == Acyclic(type_bindings)

----------------------------------------------------------------------------
(* C5: level demotion.  When an unbound variable v of level L_v has been   *)
(* unified with a type and the result is committed, every Unbound variable *)
(* reachable inside that type has a level of at most L_v afterwards.       *)
C5_LevelDemotion ==
    [][/\ PerformBindingsOrPushError
       /\ pending.res = "Ok"
       /\ pending.actual.tag = "TypeVariable"
       /\ ~type_bindings[pending.actual.id].bound
       => \A u \in FreeVars(pending.expected, type_bindings') :
              type_bindings'[u].level <= type_bindings[pending.actual.id].level]_vars

----------------------------------------------------------------------------
(* C6: generalize(T) returns PolyType(vars, T) where vars lists, sorted    *)
(* and without duplicates, exactly the Unbound variables reachable from T  *)
(* whose level is at least CURRENT_LEVEL, and MonoType(T) iff there is no  *)
(* such variable.                                                          *)
Generalizable(typ, cache, current_level) ==
    {v \in FreeVars(typ, cache) : cache[v].level >= current_level}

C6_GeneralizeExact ==
    pending.kind = "generalized" /\ pending.instances = <<>> =>
        LET expected == Generalizable(pending.typ, type_bindings, CURRENT_LEVEL)
            g == pending.generalized
        IN  /\ g.typ = pending.typ
            /\ g.poly <=> expected # {}
            /\ g.poly =>
                   /\ {g.typevars[i] : i \in DOMAIN g.typevars} = expected
                   /\ \A i, j \in DOMAIN g.typevars : i < j => g.typevars[i] < g.typevars[j]

(* a type with two generalizable variables, met out of order, and one of a lower level *)
C6_Witness ==
    /\ pending.kind = "generalized"
    /\ pending.instances = <<>>
    /\ pending.generalized.poly
    /\ Len(pending.generalized.typevars) = 2
    /\ pending.typ.tag = "Function"
    /\ pending.typ.parameters[1].tag = "TypeVariable"
    /\ pending.typ.return_type.tag = "TypeVariable"
    /\ pending.typ.parameters[1].id > pending.typ.return_type.id
    /\ \E v \in InferenceVars(type_bindings) :
           ~type_bindings[v].bound /\ type_bindings[v].level < CURRENT_LEVEL

----------------------------------------------------------------------------
(* C7: instantiation.  Each call of instantiate on PolyType(vars, T)       *)
(* returns a mapping whose keys are exactly vars and whose values are      *)
(* distinct variables minted during the call at the current level, and the *)
(* type it returns is T with every binding followed and every quantified   *)
(* variable renamed by the mapping.  Two instantiations of the same        *)
(* PolyType share no minted variable: the variables they share are exactly *)
(* the Unbound variables reachable from T that are not quantified.         *)

(* the structural renaming of variable ids by m *)
RECURSIVE Rename(_, _)
Rename(typ, m) ==
    CASE typ.tag \in {"Primitive", "UserDefined", "Tag"} -> typ
      [] typ.tag \in {"TypeVariable", "NamedGeneric"} ->
            IF typ.id \in DOMAIN m THEN TypeVariable(m[typ.id]) ELSE typ
      [] typ.tag = "Function" ->
            Function([i \in DOMAIN typ.parameters |-> Rename(typ.parameters[i], m)],
                     Rename(typ.return_type, m), Rename(typ.environment, m),
                     Rename(typ.effects, m), typ.has_varargs)
      [] typ.tag = "TypeApplication" ->
            TypeApplication(Rename(typ.constructor, m),
                            [i \in DOMAIN typ.args |-> Rename(typ.args[i], m)])
      [] typ.tag = "Ref" ->
            Ref(Rename(typ.mutability, m), Rename(typ.sharedness, m), Rename(typ.lifetime, m))
      [] typ.tag = "Struct" ->
            Struct([n \in DOMAIN typ.fields |-> Rename(typ.fields[n], m)],
                   IF typ.rest \in DOMAIN m THEN m[typ.rest] ELSE typ.rest)
      [] typ.tag = "Effects" ->
            IF typ.extension \in DOMAIN m THEN Effects(typ.effects, m[typ.extension]) ELSE typ

InstantiateStep ==
    /\ pending.kind = "generalized"
    /\ pending'.kind = "generalized"
    /\ Len(pending'.instances) = Len(pending.instances) + 1

Quantified(g) == {g.typevars[i] : i \in DOMAIN g.typevars}

(* what one call of instantiate on a PolyType returns *)
InstanceRenamesQuantified ==
    LET g == pending.generalized
        instance == pending'.instances[Len(pending'.instances)]
        m == instance.type_bindings
        minted == (Len(type_bindings) + 1)..Len(type_bindings')
    IN  /\ DOMAIN m = Quantified(g)
        /\ \A k \in DOMAIN m :
               /\ m[k].tag = "TypeVariable"
               /\ m[k].id \in minted
               /\ type_bindings'[m[k].id] = Unbound(CURRENT_LEVEL, "Normal")
        /\ \A k, l \in DOMAIN m : k # l => m[k] # m[l]
        /\ Cardinality(minted) = Cardinality(Quantified(g))
        /\ instance.typ = Rename(Resolve(g.typ, type_bindings), [k \in DOMAIN m |-> m[k].id])

C7_InstancesShareOnlyUnquantified ==
    [][InstantiateStep /\ pending.generalized.poly =>
           /\ InstanceRenamesQuantified
           /\ \A i \in DOMAIN pending.instances :
                  FreeVars(pending.instances[i].typ, type_bindings')
                      \cap FreeVars(pending'.instances[Len(pending'.instances)].typ,
                                    type_bindings')
                  = FreeVars(pending.generalized.typ, type_bindings)
                        \ Quantified(pending.generalized)]_vars

(* C7 as stated: two instantiations of the same PolyType share no inference variable *)
C7_InstancesShareNothing ==
    [][InstantiateStep /\ pending.generalized.poly =>
           /\ InstanceRenamesQuantified
           /\ \A i \in DOMAIN pending.instances :
                  FreeVars(pending.instances[i].typ, type_bindings')
                      \cap FreeVars(pending'.instances[Len(pending'.instances)].typ,
                                    type_bindings')
                  = {}]_vars

(* a PolyType over a type with an unquantified variable has been instantiated twice *)
C7_Witness ==
    /\ pending.kind = "generalized"
    /\ pending.generalized.poly
    /\ Len(pending.instances) = 2
    /\ FreeVars(pending.typ, type_bindings) \ Quantified(pending.generalized) # {}

----------------------------------------------------------------------------
----------------------------------------------------------------------------
(* C9: commutativity.  For types a and b without Ref and Tag, unify(a, b)  *)
(* succeeds iff unify(b, a) succeeds from the same cache, and after the    *)
(* commit of either order a and b resolve to the same type.                *)
RECURSIVE HasRefOrTag(_)
HasRefOrTag(typ) ==
    CASE typ.tag \in {"Ref", "Tag"} -> TRUE
      [] typ.tag \in {"Primitive", "UserDefined", "TypeVariable", "NamedGeneric", "Effects"} ->
            FALSE
      [] typ.tag = "Function" ->
            \/ \E i \in DOMAIN typ.parameters : HasRefOrTag(typ.parameters[i])
            \/ HasRefOrTag(typ.return_type)
            \/ HasRefOrTag(typ.environment)
      [] typ.tag = "TypeApplication" ->
            HasRefOrTag(typ.constructor) \/ \E i \in DOMAIN typ.args : HasRefOrTag(typ.args[i])
      [] typ.tag = "Struct" -> \E n \in DOMAIN typ.fields : HasRefOrTag(typ.fields[n])

ResolveSame(a, b, cache) == Acyclic(cache) /\ Resolve(a, cache) = Resolve(b, cache)

C9_Commutative ==
    [][/\ TryUnifyStep
       /\ ~HasRefOrTag(pending'.actual)
       /\ ~HasRefOrTag(pending'.expected)
       => LET a == pending'.actual
              b == pending'.expected
              reversed == try_unify(b, a, type_bindings)
          IN  /\ pending'.res = "Ok" <=> reversed.res = "Ok"
              /\ pending'.res = "Ok" /\ reversed.res = "Ok" =>
                     /\ ResolveSame(a, b, perform(pending', type_bindings'))
                     /\ ResolveSame(a, b, perform(reversed, reversed.cache))]_vars

----------------------------------------------------------------------------
(* C10: row extensibility.  Unifying Struct({x: Int}, r1) with             *)
(* Struct({y: Bool}, r2) in either order, both rows unbound and distinct,  *)
(* succeeds and mints one variable; after the commit both sides resolve to *)
(* the one struct with the fields x and y whose row is the variable        *)
(* minted, which is unbound and is neither r1 nor r2.                      *)
DisjointRecords(a, b, cache) ==
    /\ a.tag = "Struct" /\ b.tag = "Struct"
    /\ {a.fields, b.fields} = {[x |-> IntT], [y |-> BoolT]}
    /\ a.rest # b.rest
    /\ ~cache[a.rest].bound
    /\ ~cache[b.rest].bound

C10_RowExtensible ==
    [][/\ TryUnifyStep /\ DisjointRecords(pending'.actual, pending'.expected, type_bindings)
          => /\ pending'.res = "Ok"
             /\ Len(type_bindings') = Len(type_bindings) + 1
       /\ /\ PerformBindingsOrPushError
          /\ DisjointRecords(pending.actual, pending.expected, type_bindings)
          => LET minted == Len(type_bindings)
                 common == Struct([x |-> IntT, y |-> BoolT], minted)
             IN  /\ Resolve(pending.actual, type_bindings') = common
                 /\ Resolve(pending.expected, type_bindings') = common
                 /\ minted \notin {pending.actual.rest, pending.expected.rest}
                 /\ ~type_bindings'[minted].bound
                 /\ type_bindings'[pending.actual.rest].bound
                 /\ type_bindings'[pending.expected.rest].bound]_vars

(* the two partial records have been unified and the result committed *)
C10_Witness ==
    /\ pending = None
    /\ \E r1, r2 \in DOMAIN rows :
           /\ r1 # r2
           /\ rows[r1] = [x |-> IntT]
           /\ rows[r2] = [y |-> BoolT]
           /\ type_bindings[r1] = Bound(TypeVariable(r2))
           /\ type_bindings[r2].bound
           /\ type_bindings[r2].typ.tag = "Struct"
           /\ DOMAIN type_bindings[r2].typ.fields = {"x", "y"}
           /\ ~type_bindings[type_bindings[r2].typ.rest].bound

----------------------------------------------------------------------------
(* C11: tag subsumption is one-directional.  unify(Mutable, Immutable) and *)
(* unify(Owned, Shared) succeed and stage nothing; unify(Immutable,        *)
(* Mutable), unify(Shared, Owned) and every pair of a mutability tag with  *)
(* a sharedness tag fail.                                                  *)
TagFamily(t) == IF t \in {"Mutable", "Immutable"} THEN "mutability" ELSE "sharedness"

C11_TagSubsumption ==
    pending.kind = "unify" /\ pending.actual.tag = "Tag" /\ pending.expected.tag = "Tag" =>
        LET pair == <<pending.actual.t, pending.expected.t>>
        IN  /\ pair \in {<<"Mutable", "Immutable">>, <<"Owned", "Shared">>} =>
                   pending.res = "Ok" /\ pending.bindings = EmptyMap
            /\ pair \in {<<"Immutable", "Mutable">>, <<"Shared", "Owned">>} =>
                   pending.res = "Err"
            /\ TagFamily(pair[1]) # TagFamily(pair[2]) => pending.res = "Err"

(* the immutable tag has been unified, as actual, with the mutable tag *)
C11_Witness ==
    /\ pending.kind = "unify"
    /\ pending.actual = Tag("Immutable")
    /\ pending.expected = Tag("Mutable")
    /\ pending.res = "Err"

----------------------------------------------------------------------------
(* C16: rigid generics.  Two NamedGenerics without a binding unify iff     *)
(* their ids are equal or their kinds are equal; with equal kinds and      *)
(* different ids the id of the actual side is staged to the expected       *)
(* NamedGeneric, with equal ids nothing is staged.  A NamedGeneric without *)
(* a binding never unifies, on either side, with a Primitive, UserDefined, *)
(* Tag, Function, TypeApplication or Ref.                                  *)
Rigid(typ, cache) == typ.tag = "NamedGeneric" /\ ~cache[typ.id].bound

ConcreteTags == {"Primitive", "UserDefined", "Tag", "Function", "TypeApplication", "Ref"}

C16_RigidGenerics ==
    pending.kind = "unify" =>
        LET a == pending.actual
            e == pending.expected
        IN  /\ Rigid(a, type_bindings) /\ Rigid(e, type_bindings) =>
                   /\ pending.res = "Ok" <=>
                          \/ a.id = e.id
                          \/ type_bindings[a.id].kind = type_bindings[e.id].kind
                   /\ pending.res = "Ok" =>
                          pending.bindings = IF a.id = e.id THEN EmptyMap
                                             ELSE MapInsert(EmptyMap, a.id, e)
            /\ Rigid(a, type_bindings) /\ e.tag \in ConcreteTags => pending.res = "Err"
            /\ Rigid(e, type_bindings) /\ a.tag \in ConcreteTags => pending.res = "Err"

(* two rigid generics of one kind have been unified, and the actual one staged *)
C16_Witness ==
    /\ pending.kind = "unify"
    /\ pending.res = "Ok"
    /\ Rigid(pending.actual, type_bindings)
    /\ Rigid(pending.expected, type_bindings)
    /\ pending.actual.id # pending.expected.id
    /\ pending.actual.id \in DOMAIN pending.bindings

----------------------------------------------------------------------------
(* C17: function arity.  Unifying two Functions whose parameter counts     *)
(* differ fails unless one side has has_varargs and the other side has at  *)
(* least as many parameters; when the counts are equal or the exception    *)
(* applies, the parameters are unified pairwise over the common prefix.    *)
ArityAccepted(f1, f2) ==
    \/ Len(f1.parameters) = Len(f2.parameters)
    \/ f1.has_varargs /\ Len(f2.parameters) >= Len(f1.parameters)
    \/ f2.has_varargs /\ Len(f1.parameters) >= Len(f2.parameters)

CommonPrefix(f1, f2) ==
    1..(IF Len(f1.parameters) < Len(f2.parameters)
        THEN Len(f1.parameters) ELSE Len(f2.parameters))

Unifies(actual, expected, cache) == try_unify(actual, expected, cache).res = "Ok"

C17_FunctionArity ==
    pending.kind = "unify" /\ pending.actual.tag = "Function"
                           /\ pending.expected.tag = "Function" =>
        LET f1 == pending.actual
            f2 == pending.expected
        IN  /\ ~ArityAccepted(f1, f2) => pending.res = "Err"
            /\ /\ ArityAccepted(f1, f2)
               /\ f1.return_type = f2.return_type
               /\ f1.environment = f2.environment
               => (pending.res = "Ok" <=>
                      \A i \in CommonPrefix(f1, f2) :
                          Unifies(f1.parameters[i], f2.parameters[i], type_bindings))

(* a varargs function of one parameter has been unified with a function of two *)
C17_Witness ==
    /\ pending.kind = "unify"
    /\ pending.res = "Ok"
    /\ pending.actual.tag = "Function"
    /\ pending.expected.tag = "Function"
    /\ pending.actual.has_varargs
    /\ ~pending.expected.has_varargs
    /\ Len(pending.actual.parameters) = 1
    /\ Len(pending.expected.parameters) = 2

----------------------------------------------------------------------------
(* C18: in unify(f1, f2) the parameters, the environment and the effects   *)
(* are unified with f1's component as actual, the return types with f2's   *)
(* return as actual and f1's as expected.  So a function returning an      *)
(* immutable reference unifies, as actual, with an expected function       *)
(* returning a mutable reference, and the opposite orientation fails.      *)
ReturnsRef(f, mutability) ==
    /\ f.tag = "Function"
    /\ f.return_type.tag = "Ref"
    /\ f.return_type.mutability = Tag(mutability)

C18_ReturnReversed ==
    pending.kind = "unify" /\ pending.actual.tag = "Function"
                           /\ pending.expected.tag = "Function" =>
        LET f1 == pending.actual
            f2 == pending.expected
        IN  /\ ArityAccepted(f1, f2) =>
                   (pending.res = "Ok" <=>
                       /\ \A i \in CommonPrefix(f1, f2) :
                              Unifies(f1.parameters[i], f2.parameters[i], type_bindings)
                       /\ Unifies(f2.return_type, f1.return_type, type_bindings)
                       /\ Unifies(f1.environment, f2.environment, type_bindings)
                       /\ Unifies(f1.effects, f2.effects, type_bindings))
            /\ /\ f1.parameters = f2.parameters
               /\ f1.environment = f2.environment
               /\ f1.return_type.tag = "Ref" /\ f2.return_type.tag = "Ref"
               /\ f1.return_type.lifetime = f2.return_type.lifetime
               => /\ ReturnsRef(f1, "Immutable") /\ ReturnsRef(f2, "Mutable") =>
                         pending.res = "Ok"
                  /\ ReturnsRef(f1, "Mutable") /\ ReturnsRef(f2, "Immutable") =>
                         pending.res = "Err"

(* a function returning an immutable reference met one returning a mutable reference *)
C18_Witness ==
    /\ pending.kind = "unify"
    /\ pending.res = "Ok"
    /\ ReturnsRef(pending.actual, "Immutable")
    /\ ReturnsRef(pending.expected, "Mutable")

----------------------------------------------------------------------------
(* C19: a partial struct against a concrete type.  Unifying Struct(F, r),  *)
(* r unbound, with a type C that is no struct and no variable, on either   *)
(* side, succeeds iff C has a field map (a nominal struct, an alias of     *)
(* one, an application of one), every field name of F is a field of C and  *)
(* each such pair of field types unifies; then r := C is what is staged,   *)
(* and on failure nothing is.                                              *)

(* the field map of the nominal types of TypeInfos, none for any other type *)
FieldMap(typ) ==
    IF typ \in {UserDefined(3), UserDefined(4)} THEN [x |-> IntT, y |-> BoolT]
    ELSE IF typ.tag = "TypeApplication" /\ typ.constructor = UserDefined(1)
    THEN [x |-> IntT, y |-> typ.args[1]]
    ELSE EmptyMap

PartialAgainstConcrete(struct, other, cache) ==
    /\ struct.tag = "Struct"
    /\ ~cache[struct.rest].bound
    /\ other.tag \notin {"Struct", "TypeVariable"}

StructOtherAccepted(struct, other, cache) ==
    /\ FieldMap(other) # EmptyMap
    /\ DOMAIN struct.fields \subseteq DOMAIN FieldMap(other)
    /\ \A n \in DOMAIN struct.fields : Unifies(FieldMap(other)[n], struct.fields[n], cache)

StructOtherResult(struct, other) ==
    /\ pending.res = "Ok" <=> StructOtherAccepted(struct, other, type_bindings)
    /\ pending.res = "Ok" => pending.bindings = MapInsert(EmptyMap, struct.rest, other)
    /\ pending.res = "Err" => pending.bindings = EmptyMap

C19_StructAgainstConcrete ==
    pending.kind = "unify" =>
        /\ PartialAgainstConcrete(pending.actual, pending.expected, type_bindings) =>
               StructOtherResult(pending.actual, pending.expected)
        /\ PartialAgainstConcrete(pending.expected, pending.actual, type_bindings) =>
               StructOtherResult(pending.expected, pending.actual)

(* an alias of a nominal struct has been unified, as actual, with a partial struct *)
C19_Witness ==
    /\ pending.kind = "unify"
    /\ pending.res = "Ok"
    /\ pending.actual = UserDefined(4)
    /\ pending.expected.tag = "Struct"
    /\ pending.bindings = MapInsert(EmptyMap, pending.expected.rest, UserDefined(4))

----------------------------------------------------------------------------
(* C20: struct against struct, rows unbound and distinct, shared fields    *)
(* unifying.  With residual fields on both sides one row variable is       *)
(* minted, at the lower of the levels of the two rows, and after the       *)
(* commit both rows resolve to the merged struct carrying it.  When one    *)
(* field set strictly includes the other, nothing is minted and only the   *)
(* row of the smaller side is bound, to the larger struct.                 *)
PartialPair(a, b, cache) ==
    /\ a.tag = "Struct" /\ b.tag = "Struct"
    /\ a.rest # b.rest
    /\ ~cache[a.rest].bound
    /\ ~cache[b.rest].bound
    /\ \A n \in (DOMAIN a.fields) \cap (DOMAIN b.fields) : Unifies(a.fields[n], b.fields[n], cache)

Merged(a, b) ==
    [n \in (DOMAIN a.fields) \cup (DOMAIN b.fields) |->
        IF n \in DOMAIN a.fields THEN a.fields[n] ELSE b.fields[n]]

MinLevel(cache, r1, r2) ==
    IF cache[r1].level < cache[r2].level THEN cache[r1].level ELSE cache[r2].level

StrictlyIncludes(larger, smaller) ==
    /\ DOMAIN smaller.fields \subseteq DOMAIN larger.fields
    /\ DOMAIN smaller.fields # DOMAIN larger.fields

C20_StructMerge ==
    [][TryUnifyStep /\ PartialPair(pending'.actual, pending'.expected, type_bindings) =>
         LET a == pending'.actual
             b == pending'.expected
             minted == Len(type_bindings')
             committed == perform(pending', type_bindings')
         IN  /\ ~StrictlyIncludes(a, b) /\ ~StrictlyIncludes(b, a)
                /\ DOMAIN a.fields # DOMAIN b.fields =>
                    /\ pending'.res = "Ok"
                    /\ minted = Len(type_bindings) + 1
                    /\ type_bindings'[minted] =
                           Unbound(MinLevel(type_bindings, a.rest, b.rest), "Normal")
                    /\ Resolve(TypeVariable(a.rest), committed) = Struct(Merged(a, b), minted)
                    /\ Resolve(TypeVariable(b.rest), committed) = Struct(Merged(a, b), minted)
             /\ StrictlyIncludes(b, a) =>
                    /\ pending'.res = "Ok"
                    /\ type_bindings' = type_bindings
                    /\ pending'.bindings = MapInsert(EmptyMap, a.rest, Struct(Merged(a, b), b.rest))
             /\ StrictlyIncludes(a, b) =>
                    /\ pending'.res = "Ok"
                    /\ type_bindings' = type_bindings
                    /\ pending'.bindings = MapInsert(EmptyMap, b.rest, Struct(Merged(a, b), a.rest))]_vars

(* two partial structs with rows of different levels have been merged *)
C20_Witness ==
    /\ pending.kind = "unify"
    /\ pending.res = "Ok"
    /\ pending.actual.tag = "Struct"
    /\ pending.expected.tag = "Struct"
    /\ type_bindings[pending.actual.rest] = Unbound(1, "Normal")
    /\ type_bindings[pending.expected.rest] = Unbound(3, "Normal")
    /\ type_bindings[Len(type_bindings)] = Unbound(1, "Normal")
    /\ pending.expected.rest \in DOMAIN pending.bindings
    /\ pending.bindings[pending.expected.rest].tag = "Struct"
    /\ pending.bindings[pending.expected.rest].rest = Len(type_bindings)

----------------------------------------------------------------------------
(* The visits of definitions, as the history of the traversal records them *)

(* the entry the event j of a visit belongs to: the last "visit" of its node before j *)
VisitOf(j) ==
    CHOOSE i \in 1..j :
        /\ events[i].kind = "visit" /\ events[i].node = events[j].node
        /\ \A k \in (i + 1)..j : ~(events[k].kind = "visit" /\ events[k].node = events[j].node)

----------------------------------------------------------------------------
(* Demand-driven inference of definitions *)

Definitions == {n \in DOMAIN ast : ast[n].node = "Definition"}
Count(kind, n) ==
    Cardinality({j \in DOMAIN events : events[j].kind = kind /\ events[j].node = n})
InferAstReturned == events # <<>> /\ events[Len(events)].kind = "done"
InProgress(id) == \E i \in DOMAIN call_stack : call_stack[i] = id

(* the right-hand side of a Definition is inferred at most once, it is      *)
(* generalized at most once and only after its right-hand side has returned *)
InferredOnce ==
    \A n \in Definitions :
        /\ Count("rhs", n) <= 1
        /\ Count("generalize", n) <= 1
        /\ \A j \in DOMAIN events :
               events[j].kind = "generalize" /\ events[j].node = n =>
                   \E h, i \in 1..j :
                       /\ h < i
                       /\ events[h].kind = "rhs" /\ events[h].node = n
                       /\ events[i].kind = "rhs_returned" /\ events[i].node = n

(* a Variable that refers to a definition in progress takes the type        *)
(* installed for it and enters no visit                                     *)
RecursiveReferenceReuses ==
    (TodoIs("Variable") /\ InProgress(ast[Todo].definition)) =>
        /\ Len(visits') = Len(visits)
        /\ definition_infos[ast[Todo].definition].typ # <<>>
        /\ ast'[Todo].typ = <<definition_infos[ast[Todo].definition].typ[1].typ>>
        /\ events' = events

(* the position of the traversal: the index of the child each call in       *)
(* progress is at, outermost call first                                     *)
Position(vs) == [i \in DOMAIN vs |-> vs[i].pc]

(* a is before b in the order of the traversal *)
Before(a, b) ==
    \/ Len(a) < Len(b) /\ \A i \in DOMAIN a : a[i] = b[i]
    \/ \E i \in (DOMAIN a) \cap (DOMAIN b) :
           /\ a[i] < b[i]
           /\ \A j \in 1..(i - 1) : a[j] = b[j]

(* every step of a traversal in progress moves it forward, and none but    *)
(* the failed assignment of Assignment::infer_impl ends it early            *)
Advances ==
    /\ visits # <<>> /\ visits' # <<>> => Before(Position(visits), Position(visits'))
    /\ aborted' => Returning("Assignment")

(* no node is visited within its own visit, and the stack is never exhausted *)
NoReentry ==
    /\ Len(visits) <= MaxAstDepth
    /\ \A i, j \in DOMAIN visits : i # j => visits[i].node # visits[j].node

(* C13: for every reference graph between definitions, self-recursive and  *)
(* mutually recursive ones included, and any number of Variable nodes      *)
(* referring to a definition, the right-hand side of each Definition is    *)
(* inferred at most once, try_generalize_definition runs for it at most    *)
(* once and only after the inference of its right-hand side has returned,  *)
(* a recursive reference met while the definition is in progress reuses    *)
(* the installed type instead of re-entering it, and the traversal only    *)
(* moves forward through the finite program, so it terminates.             *)
C13_InferredOnceAndTerminates ==
    /\ [](InferredOnce /\ NoReentry)
    /\ [][RecursiveReferenceReuses /\ Advances]_vars

(* infer_ast has returned from a program where a Definition was asked for  *)
(* from the right-hand side of another and met again afterwards            *)
C13_Witness ==
    /\ InferAstReturned
    /\ \E n, m \in Definitions :
           /\ n # m
           /\ Count("rhs", n) = 1 /\ Count("generalize", n) = 1
           /\ \E i, j, k \in DOMAIN events :
                  /\ i < j /\ j < k
                  /\ events[i].kind = "rhs" /\ events[i].node = m
                  /\ events[j].kind = "rhs" /\ events[j].node = n
                  /\ events[k].kind = "rhs_returned" /\ events[k].node = m
           /\ \E v, w \in DOMAIN ast :
                  /\ v # w
                  /\ ast[v].node = "Variable" /\ ast[w].node = "Variable"
                  /\ ast[v].definition = ast[w].definition
                  /\ definition_infos[ast[v].definition].definition = <<n>>
                  /\ ast[v].typ # <<>> /\ ast[w].typ # <<>>

----------------------------------------------------------------------------
(* C12: totality.  After infer_ast has returned, every node of the program *)
(* has its type field filled, also when diagnostics were reported (a       *)
(* refutable or syntactically invalid pattern in a lambda parameter or in  *)
(* a definition pattern).                                                  *)
C12_Totality ==
    InferAstReturned => \A n \in DOMAIN ast : ast[n].typ # <<>>

----------------------------------------------------------------------------
(* Assignment *)

(* Assignment::infer_impl is about to run its own part for an assignment   *)
(* whose left-hand side is a Variable and whose two sides unify directly   *)
DirectAssignment ==
    /\ Returning("Assignment")
    /\ ast[ast[Top.node].lhs].node = "Variable"
    /\ try_unify(ast[ast[Top.node].lhs].typ[1], ast[ast[Top.node].rhs].typ[1],
                 type_bindings).res = "Ok"

(* C15: for an assignment whose left-hand side is a Variable and whose two *)
(* sides unify directly, MutRefToImmutableVariable(name) is pushed iff the *)
(* definition of the variable is not flagged mutable; in both cases the    *)
(* type of the assignment is unit, the bindings of the unification are     *)
(* committed and the left-hand side is wrapped in a mutable Reference node.*)
C15_MutableAssignment ==
    [][DirectAssignment =>
        LET a == Top.node
            v == ast[a].lhs
            definition_id == ast[v].definition
        IN  /\ diagnostics' =
                   IF definition_infos[definition_id].mutable THEN diagnostics
                   ELSE Append(diagnostics, [kind |-> "MutRefToImmutableVariable",
                                             name |-> definition_id])
            /\ ast'[a].typ = <<UnitT>>
            /\ ast'[a].lhs \notin DOMAIN ast
            /\ ast'[ast'[a].lhs].node = "Reference"
            /\ ast'[ast'[a].lhs].mutability = "Mutable"
            /\ ast'[ast'[a].lhs].expression = v
            /\ ast'[v] = ast[v]
            /\ follow_bindings_in_cache(ast[v].typ[1], type_bindings') =
                   follow_bindings_in_cache(ast[ast[a].rhs].typ[1], type_bindings')
            /\ ~aborted']_vars

(* an assignment to a variable that is not mutable and whose type was not  *)
(* known has been inferred: the diagnostic is there and the variable of    *)
(* the type is bound                                                       *)
C15_Witness ==
    \E a \in DOMAIN ast :
        /\ ast[a].node = "Assignment"
        /\ ast[a].typ = <<UnitT>>
        /\ ast[ast[a].lhs].node = "Reference"
        /\ LET v == ast[ast[a].lhs].expression
           IN  /\ ast[v].node = "Variable"
               /\ ~definition_infos[ast[v].definition].mutable
               /\ ast[v].typ[1].tag = "TypeVariable"
               /\ type_bindings[ast[v].typ[1].id].bound
               /\ \E i \in DOMAIN diagnostics :
                      /\ diagnostics[i].kind = "MutRefToImmutableVariable"
                      /\ diagnostics[i].name = ast[v].definition

----------------------------------------------------------------------------
(* Failed assignment *)

(* the second try_unify of Assignment::infer_impl, after a first that has   *)
(* failed and left `cache`                                                   *)
MutRefAttempt(lhs, rhs, cache) ==
    LET mut_ref == mut_polymorphically_shared_ref(
                       [type_bindings |-> cache, CURRENT_LEVEL |-> CURRENT_LEVEL])
    IN  try_unify(lhs, TypeApplication(mut_ref.typ, <<rhs>>), mut_ref.c.type_bindings)

(* the left type against a mutable reference to a variable minted for it *)
MutRefToAnything(lhs, cache) ==
    LET c == [type_bindings |-> cache, CURRENT_LEVEL |-> CURRENT_LEVEL]
        ref == mut_polymorphically_shared_ref(next_type_variable(c))
    IN  try_unify(lhs, TypeApplication(ref.typ, <<TypeVariable(Len(cache) + 1)>>),
                  ref.c.type_bindings)

(* Assignment::infer_impl is about to run its own part for an assignment    *)
(* whose two sides unify neither directly nor through a mutable reference    *)
FailedAssignment ==
    /\ Returning("Assignment")
    /\ LET lhs == ast[ast[Top.node].lhs].typ[1]
           rhs == ast[ast[Top.node].rhs].typ[1]
           direct == try_unify(lhs, rhs, type_bindings)
       IN  /\ direct.res = "Err"
           /\ MutRefAttempt(lhs, rhs, direct.cache).res = "Err"

(* the diagnostic the failed assignment on top is to push *)
AssignmentDiagnostic ==
    LET lhs == ast[ast[Top.node].lhs].typ[1]
        rhs == ast[ast[Top.node].rhs].typ[1]
        second == MutRefAttempt(lhs, rhs, try_unify(lhs, rhs, type_bindings).cache)
    IN  IF MutRefToAnything(lhs, second.cache).res = "Ok"
        THEN [kind |-> "AssignToWrongType"] ELSE [kind |-> "AssignToNonMutRef"]

(* C21: an assignment whose two types unify neither directly nor as a       *)
(* mutable reference applied to the right-hand type does not abort, binds   *)
(* no variable of the cache and pushes exactly one diagnostic:              *)
(* AssignToNonMutRef if the left type does not unify with a mutable         *)
(* reference to anything, AssignToWrongType otherwise.                      *)
C21_FailedAssignment ==
    [][FailedAssignment =>
        /\ ~aborted'
        /\ diagnostics' = Append(diagnostics, AssignmentDiagnostic)
        /\ \A id \in DOMAIN type_bindings : type_bindings'[id] = type_bindings[id]]_vars

(* the same for the failed assignments that do not abort *)
C21_FailedAssignmentUnlessAborted ==
    [][FailedAssignment /\ ~aborted' =>
        /\ diagnostics' = Append(diagnostics, AssignmentDiagnostic)
        /\ \A id \in DOMAIN type_bindings : type_bindings'[id] = type_bindings[id]]_vars

----------------------------------------------------------------------------
(* Definition bookkeeping *)

(* the DefinitionInfoIds of the variables of the pattern of Definition n *)
PatternIds(n) ==
    LET ids == foreach_variable(ast[n].pattern, ast)
    IN  {ids[i] : i \in DOMAIN ids} \ {0}

(* the ids the Definitions whose right-hand side is in progress have       *)
(* pushed, outermost first                                                 *)
RECURSIVE PushedBy(_)
PushedBy(vs) ==
    IF vs = <<>> THEN <<>>
    ELSE LET n == vs[Len(vs)].node
             ids == IF n > 0 /\ ast[n].node = "Definition"
                    THEN foreach_variable(ast[n].pattern, ast) ELSE <<>>
         IN  PushedBy(SubSeq(vs, 1, Len(vs) - 1)) \o SelectSeq(ids, LAMBDA id : id # 0)

(* while the right-hand side of a Definition is inferred, the variables of *)
(* its pattern are on the call stack, flagged and typed                    *)
MarkedInProgress ==
    /\ call_stack = PushedBy(visits)
    /\ \A i \in DOMAIN visits :
           visits[i].node > 0 /\ ast[visits[i].node].node = "Definition" =>
               \A id \in PatternIds(visits[i].node) :
                   /\ InProgress(id)
                   /\ definition_infos[id].undergoing_type_inference
                   /\ definition_infos[id].typ # <<>>

(* a visit of Definition n starts: from the traversal or for a Variable    *)
Entering(n) ==
    /\ ast[n].node = "Definition"
    /\ \/ Todo = n
       \/ /\ TodoIs("Variable")
          /\ definition_infos[ast[Todo].definition].typ = <<>>
          /\ definition_infos[ast[Todo].definition].definition = <<n>>

(* the type a variable of the pattern has before mark_id_in_progress, its  *)
(* own or the one of initialize_function_type, is the type it keeps        *)
KeepsExistingType ==
    \A n \in Definitions :
        Entering(n) /\ ast[n].typ = <<>> =>
            LET c == initialize_function_type(n, Cache)
            IN  \A id \in PatternIds(n) :
                    c.definition_infos[id].typ # <<>> =>
                        definition_infos'[id].typ = c.definition_infos[id].typ

(* the flag of a variable is clear iff it is not mutually recursive *)
FlagIffMutuallyRecursive(infos, id) ==
    infos[id].undergoing_type_inference = infos[id].mutually_recursive

(* a visit of a Definition returns, at once or after its right-hand side   *)
ReturnsAsEntered ==
    /\ \A n \in Definitions :
           Entering(n) /\ ast[n].typ # <<>> =>
               /\ call_stack' = call_stack
               /\ \A id \in PatternIds(n) : FlagIffMutuallyRecursive(definition_infos', id)
    /\ Returning("Definition") =>
           /\ call_stack' = PushedBy(SubSeq(visits, 1, Len(visits) - 1))
           /\ \A id \in PatternIds(Top.node) :
                  FlagIffMutuallyRecursive(definition_infos', id)

(* C23: while the right-hand side of a definition is being inferred, the   *)
(* id of every variable of its pattern is on the call stack, its           *)
(* undergoing_type_inference flag is true and it has a type installed, an  *)
(* existing type never replaced by the placeholder; when the visit         *)
(* returns, the call stack has the contents it had on entry, and the flag  *)
(* is false iff the definition is not mutually recursive.                  *)
C23_DefinitionBookkeeping ==
    /\ []MarkedInProgress
    /\ [][KeepsExistingType /\ ReturnsAsEntered]_vars

(* a definition of a mutual-recursion set has returned with its flag still *)
(* set while another of the set is in progress, and that other one holds   *)
(* the function type installed before it was marked                        *)
C23_Witness ==
    \E n, m \in Definitions :
        /\ n # m
        /\ Count("return", n) = 1 /\ Count("rhs", m) = 1 /\ Count("return", m) = 0
        /\ \E id \in PatternIds(n) :
               /\ definition_infos[id].undergoing_type_inference
               /\ definition_infos[id].mutually_recursive
               /\ ~InProgress(id)
        /\ \E id \in PatternIds(m) :
               /\ InProgress(id)
               /\ definition_infos[id].typ[1].typ.tag = "Function"

----------------------------------------------------------------------------
(* Member access *)

(* the three unifications MemberAccess::infer_impl may try for the access  *)
(* on top, each over the cache the one before has left                     *)
AccessLhs == ast[ast[Top.node].lhs].typ[1]
AccessCache(cache) == [type_bindings |-> cache, CURRENT_LEVEL |-> CURRENT_LEVEL]
DirectAttempt ==
    try_unify(AccessLhs, member_struct_type(Top.node, Cache),
              next_type_variable(next_type_variable(Cache)).type_bindings)
DerefAttempt ==
    LET struct_ref == ref_of(IF ast[Top.node].offset = <<>> THEN "Immutable"
                             ELSE ast[Top.node].offset[1],
                             member_struct_type(Top.node, Cache),
                             AccessCache(DirectAttempt.cache))
    IN  try_unify(AccessLhs, struct_ref.typ, struct_ref.c.type_bindings)
ImmutableProbe ==
    LET struct_imm_ref == ref_of("Immutable", member_struct_type(Top.node, Cache),
                                 AccessCache(DerefAttempt.cache))
    IN  try_unify(AccessLhs, struct_imm_ref.typ, struct_imm_ref.c.type_bindings)

(* the bindings the step commits: the variables bound after it that were   *)
(* not bound before, with their types                                      *)
Committed ==
    [id \in {id \in DOMAIN type_bindings' :
                /\ type_bindings'[id].bound
                /\ id \in DOMAIN type_bindings => ~type_bindings[id].bound}
        |-> type_bindings'[id].typ]

(* the diagnostics a unification pushes *)
UnificationDiagnostics(ds) ==
    SelectSeq(ds, LAMBDA d : d.kind \in {"ExpectedMutable", "NoFieldOfType"})

(* C22: member access commits the bindings of exactly one successful       *)
(* attempt, the direct one or else the one against a reference to the      *)
(* partial struct with the requested mutability; it never commits the      *)
(* bindings of a failed attempt or of the immutable-reference probe, and   *)
(* if no attempt succeeds it pushes exactly one diagnostic: ExpectedMutable *)
(* when the probe unifies, NoFieldOfType otherwise.                        *)
C22_MemberAccess ==
    [][Returning("MemberAccess") =>
        /\ ~aborted'
        /\ IF DirectAttempt.res = "Ok"
           THEN /\ Committed = DirectAttempt.bindings
                /\ UnificationDiagnostics(diagnostics') = UnificationDiagnostics(diagnostics)
           ELSE IF DerefAttempt.res = "Ok"
           THEN /\ Committed = DerefAttempt.bindings
                /\ diagnostics' = diagnostics
           ELSE /\ Committed = EmptyMap
                /\ diagnostics' =
                       Append(diagnostics,
                              [kind |-> IF ImmutableProbe.res = "Ok"
                                        THEN "ExpectedMutable" ELSE "NoFieldOfType"])]_vars

(* a mutable access through a mutable reference has bound its field, after *)
(* one through an immutable reference whose probe unified and one of a     *)
(* field the type does not have                                            *)
C22_Witness ==
    /\ \E i, j \in DOMAIN diagnostics :
           diagnostics[i].kind = "ExpectedMutable" /\ diagnostics[j].kind = "NoFieldOfType"
    /\ \E n \in DOMAIN ast :
           /\ ast[n].node = "MemberAccess" /\ ast[n].offset = <<"Mutable">>
           /\ ast[n].typ # <<>>
           /\ ast[ast[n].lhs].typ[1].tag = "TypeApplication"
           /\ follow_bindings_in_cache(ast[n].typ[1].args[1], type_bindings) = IntT

----------------------------------------------------------------------------
(* Lambda creation: the function type Lambda::infer_impl builds once the    *)
(* body is inferred, from any parameter types, body type, environment and   *)
(* body effects over the caches LambdaCaches.                               *)

(* EffectSet::flatten for the effect sets the model builds: the extension   *)
(* is followed through its bindings to the row variable at their end        *)
RECURSIVE flatten(_, _)
flatten(effects, cache) ==
    IF effects.extension = 0 THEN effects
    ELSE IF ~cache[effects.extension].bound THEN effects
    ELSE LET typ == cache[effects.extension].typ
         IN  IF typ.tag = "TypeVariable" THEN flatten(Effects(effects.effects, typ.id), cache)
             ELSE IF typ.tag = "Effects" THEN flatten(typ, cache)
             ELSE Effects(effects.effects, 0)

(* the extension is put back whether it occurs in the function type or not *)
close_effects_never(typ, extension, level, cache) ==
    [typ |-> [typ EXCEPT !.effects = Effects(typ.effects.effects, extension)],
     panic |-> FALSE]

(* typ is the function type built without the extension *)
close_effects(typ, extension, level, cache) ==
    IF extension = 0 THEN [typ |-> typ, panic |-> FALSE]
    ELSE LET o == occurs_in_function(extension, level, typ, UnificationBindings_empty,
                                     RECURSION_LIMIT, cache, {})
         IN  IF o.panic THEN [typ |-> typ, panic |-> TRUE]
             ELSE IF o.occurs
             THEN [typ |-> [typ EXCEPT !.effects = Effects(typ.effects.effects, extension)],
                   panic |-> FALSE]
             ELSE [typ |-> typ, panic |-> FALSE]

(* Lambda::infer_impl from `let mut effects = body.effects.flatten(cache)` on *)
lambda_type(parameter_types, return_type, environment, effects, level, cache) ==
    close_effects(Function(parameter_types, return_type, environment,
                           Effects(effects.effects, 0), FALSE),
                  effects.extension, level, cache)

LambdaCaches ==
    LET U(level) == Unbound(level, "Normal")
    IN  {[cache |-> <<U(1), U(1), U(2), U(1)>>, rows |-> EmptyMap],
         [cache |-> <<U(1), Bound(TypeVariable(1)), U(1), Bound(Fn(TypeVariable(3), IntT))>>,
          rows |-> EmptyMap],
         [cache |-> <<U(1), Bound(Effects(<<>>, 1)), U(2), Bound(TypeVariable(2))>>,
          rows |-> EmptyMap],
         [cache |-> <<U(1), U(1), Bound(TypeVariable(2)), U(1)>>,
          rows |-> MapInsert(EmptyMap, 4, [x |-> TypeVariable(3)])]}

LambdaTypes(cache, rows_) ==
    LET V == TypeVars(cache, rows_) IN
    {IntT, UnitT}
    \cup {TypeVariable(v) : v \in V}
    \cup {NamedGeneric(v, "a") : v \in V}
    \cup {T(TypeVariable(v)) : v \in V}
    \cup {Function(<<IntT>>, IntT, UnitT, Effects(<<>>, v), FALSE) : v \in V}
    \cup {Ref(Tag("Immutable"), Tag("Shared"), TypeVariable(v)) : v \in V}
    \cup StructTypes(rows_)

LambdaParameters(cache, rows_) ==
    {<<p>> : p \in LambdaTypes(cache, rows_)}
    \cup {<<IntT, p>> : p \in LambdaTypes(cache, rows_)}

LambdaEnvironments(cache, rows_) ==
    {UnitT} \cup {TypeVariable(v) : v \in TypeVars(cache, rows_)}

LambdaEffects(cache, rows_) ==
    {NoEffects} \cup {Effects(<<>>, v) : v \in TypeVars(cache, rows_)}

InitLambda ==
    /\ \E c \in LambdaCaches : type_bindings = c.cache /\ rows = c.rows
    /\ CURRENT_LEVEL = INITIAL_LEVEL
    /\ diagnostics = <<>>
    /\ visits = <<>>
    /\ pending = None
    /\ aborted = FALSE
    /\ ast = <<>>
    /\ definition_infos = <<>>
    /\ call_stack = <<>>
    /\ events = <<>>

(* the body of a lambda has been inferred: the caller now holds the type of the lambda *)
LambdaCreated(parameter_types, body, environment) ==
    /\ Idle
    /\ LET r == lambda_type(parameter_types, body.typ, environment,
                            flatten(body.effects, type_bindings), CURRENT_LEVEL,
                            type_bindings)
       IN  IF r.panic
           THEN /\ aborted' = TRUE
                /\ UNCHANGED pending
           ELSE /\ pending' = [kind |-> "lambda", parameter_types |-> parameter_types,
                               body |-> body, environment |-> environment, typ |-> r.typ]
                /\ UNCHANGED aborted
    /\ UNCHANGED <<type_bindings, CURRENT_LEVEL, diagnostics, visits, rows>>
    /\ UNCHANGED ast_vars

NextLambda ==
    \/ \E parameter_types \in LambdaParameters(type_bindings, rows),
          typ \in LambdaTypes(type_bindings, rows),
          environment \in LambdaEnvironments(type_bindings, rows),
          effects \in LambdaEffects(type_bindings, rows) :
           LambdaCreated(parameter_types, [typ |-> typ, effects |-> effects], environment)
    \/ Discard

SpecLambda == InitLambda /\ [][NextLambda]_vars

(* the row variable at the end of the bindings of the body's extension, 0 when closed *)
RowOf(effects, cache) ==
    IF effects.extension = 0 THEN 0
    ELSE LET end == follow_bindings_in_cache(TypeVariable(effects.extension), cache)
         IN  IF end.tag = "TypeVariable" THEN end.id
             ELSE IF end.tag = "Effects" /\ end.extension # 0
             THEN follow_bindings_in_cache(TypeVariable(end.extension), cache).id
             ELSE 0

(* the free variables of the parameters, the return type and the environment *)
ElsewhereInLambda(cache) ==
    UNION {FreeVars(pending.parameter_types[i], cache) : i \in DOMAIN pending.parameter_types}
    \cup FreeVars(pending.body.typ, cache)
    \cup FreeVars(pending.environment, cache)

----------------------------------------------------------------------------
(* Unifications in sequence over one UnificationBindings, as the loop of    *)
(* try_unify_all_with_bindings runs them, from the caches SideCaches: bound *)
(* variables, bound rows and references of either mutability.               *)

SideCaches ==
    LET U(level) == Unbound(level, "Normal")
        mut == [x |-> RefT("Mutable", 1)]
        imm == [x |-> RefT("Immutable", 1)]
        muty == [x |-> RefT("Mutable", 1), y |-> BoolT]
        immy == [x |-> RefT("Immutable", 1), y |-> BoolT]
    IN  {[cache |-> <<U(1), Bound(RefT("Mutable", 1)), Bound(RefT("Immutable", 1)), U(1),
                      Bound(TypeVariable(2))>>,
          rows |-> EmptyMap],
         [cache |-> <<U(1), U(1), U(1), Bound(Struct(immy, 6)), Bound(Struct(muty, 7)),
                      U(1), U(1)>>,
          rows |-> [r \in 2..7 |-> <<mut, imm, imm, mut, immy, muty>>[r - 1]]],
         [cache |-> <<U(1), U(1), U(1)>>,
          rows |-> [r \in 2..3 |-> <<[x |-> IntT], [y |-> BoolT]>>[r - 1]]]}

SideTypes(cache, rows_) ==
    {IntT, UserDefined(3), T(IntT), RefT("Mutable", 1), RefT("Immutable", 1)}
    \cup {TypeVariable(v) : v \in TypeVars(cache, rows_) \ {1}}
    \cup {NamedGeneric(v, "a") : v \in TypeVars(cache, rows_) \ {1}}
    \cup StructTypes(rows_)

InitSides ==
    /\ \E c \in SideCaches : type_bindings = c.cache /\ rows = c.rows
    /\ CURRENT_LEVEL = INITIAL_LEVEL
    /\ diagnostics = <<>>
    /\ visits = <<>>
    /\ pending = None
    /\ aborted = FALSE
    /\ ast = <<>>
    /\ definition_infos = <<>>
    /\ call_stack = <<>>
    /\ events = <<>>

(* try_unify_with_bindings(actual, expected, bindings): the next iteration  *)
(* of the loop, over the bindings the iteration before has left; `given` is *)
(* what it was handed                                                       *)
TryUnifyWithBindings(actual, expected, max_vars) ==
    /\ ~aborted
    /\ pending.kind = "unify"
    /\ pending.res = "Ok"
    /\ LET r == try_unify_with_bindings_inner(actual, expected,
                    [res |-> "Ok", bindings |-> pending.bindings,
                     level_bindings |-> pending.level_bindings, cache |-> type_bindings],
                    StackDepth)
       IN  IF r.res = "Abort"
           THEN /\ aborted' = TRUE
                /\ UNCHANGED <<type_bindings, rows, pending>>
           ELSE /\ Len(r.cache) <= max_vars
                /\ type_bindings' = r.cache
                /\ rows' = [n \in (DOMAIN rows) \cup (DOMAIN MintedRows(r, type_bindings)) |->
                                IF n \in DOMAIN rows THEN rows[n]
                                ELSE MintedRows(r, type_bindings)[n]]
                /\ pending' = [kind |-> "unify_with_bindings",
                               actual |-> actual, expected |-> expected,
                               given |-> pending.bindings,
                               res |-> r.res, bindings |-> r.bindings,
                               level_bindings |-> r.level_bindings]
                /\ UNCHANGED aborted
    /\ UNCHANGED <<CURRENT_LEVEL, diagnostics, visits>>
    /\ UNCHANGED ast_vars

NextSides ==
    \/ \E actual, expected \in SideTypes(type_bindings, rows) :
           TryUnify(actual, expected, MaxKernelVars)
    \/ \E actual, expected \in SideTypes(type_bindings, rows) :
           TryUnifyWithBindings(actual, expected, MaxKernelVars)
    \/ Discard

SpecSides == InitSides /\ [][NextSides]_vars

----------------------------------------------------------------------------
(* Side preservation *)

(* the unifier's state when a unification starts over the bindings `given` *)
Started(given, cache) ==
    [res |-> "Ok", bindings |-> given, level_bindings |-> <<>>, cache |-> cache]

(* a term with its binding written in its place: a variable or a named     *)
(* generic bound in the cache or in the staged map, a Struct whose row is   *)
(* Bound in the cache                                                       *)
RECURSIVE InPlace(_, _, _)
InPlace(typ, st, seen) ==
    IF typ.tag \in {"TypeVariable", "NamedGeneric"}
    THEN IF typ.id \notin seen /\ find_binding(typ.id, st, st.cache).bound
         THEN InPlace(find_binding(typ.id, st, st.cache).typ, st, seen \cup {typ.id})
         ELSE typ
    ELSE IF typ.tag = "Struct"
    THEN IF typ.rest \notin seen /\ st.cache[typ.rest].bound
         THEN InPlace(st.cache[typ.rest].typ, st, seen \cup {typ.rest})
         ELSE typ
    ELSE typ

(* the step is a unification that returned *)
UnifiedWithBindings ==
    /\ pending' # pending
    /\ pending'.kind \in {"unify", "unify_with_bindings"}

Given == IF pending'.kind = "unify" THEN EmptyMap ELSE pending'.given

(* the result of the same unification with the bindings written in place *)
WrittenInPlace ==
    LET st == Started(Given, type_bindings)
    IN  try_unify_with_bindings_inner(InPlace(pending'.actual, st, {}),
                                      InPlace(pending'.expected, st, {}), st, StackDepth)

SamePreserved ==
    UnifiedWithBindings /\ Acyclic(Overlay(type_bindings, Given))
    => pending'.res = WrittenInPlace.res

(* C24: a unification that replaces a term by its binding, of the cache or *)
(* of the staged map, succeeds exactly when the same unification succeeds   *)
(* with the binding written in place of the term on the side of the term:   *)
(* the direction of the tag subsumption is that of the term replaced.       *)
C24_SidePreservation == [][SamePreserved]_vars


(* a Struct whose row is Bound in the cache is among the terms replaced *)
RECURSIVE RowFollowed(_, _, _)
RowFollowed(typ, st, seen) ==
    IF typ.tag \in {"TypeVariable", "NamedGeneric"}
    THEN /\ typ.id \notin seen
         /\ find_binding(typ.id, st, st.cache).bound
         /\ RowFollowed(find_binding(typ.id, st, st.cache).typ, st, seen \cup {typ.id})
    ELSE typ.tag = "Struct" /\ st.cache[typ.rest].bound

(* the same, but for an expected type replaced by the binding of a row: the *)
(* binding of the row is unified as the actual type                         *)
C24_SidePreservedButForRows ==
    [][UnifiedWithBindings
       /\ ~RowFollowed(pending'.expected, Started(Given, type_bindings), {})
       => SamePreserved]_vars

----------------------------------------------------------------------------
(* Staged bindings *)

(* the ids whose staged binding the step replaced by another type *)
Overwritten ==
    {id \in DOMAIN pending'.given : pending'.bindings[id] # pending'.given[id]}

ContinuedWithBindings ==
    /\ pending' # pending
    /\ pending'.kind = "unify_with_bindings"
    /\ pending'.res = "Ok"

(* C29: a unification that goes on over the bindings staged so far leaves   *)
(* every binding already staged as it is: no id that is a key of the        *)
(* bindings is given another type by a later step, whichever arm inserts.   *)
C29_AtMostOneStagedBinding == [][ContinuedWithBindings => Overwritten = {}]_vars

(* the same for the ids that are no rows: the variable arm and the arm of   *)
(* two named generics insert only for an id find_binding reports Unbound    *)
C29_VariablesStagedOnce == [][ContinuedWithBindings => Overwritten \subseteq DOMAIN rows]_vars

----------------------------------------------------------------------------
(* Unified records *)

(* the step commits the successful unification of two Structs whose rows   *)
(* are distinct and Unbound                                                 *)
RecordsCommitted ==
    /\ PerformBindings
    /\ pending.actual.tag = "Struct"
    /\ pending.expected.tag = "Struct"
    /\ pending.actual.rest # pending.expected.rest
    /\ ~type_bindings[pending.actual.rest].bound
    /\ ~type_bindings[pending.expected.rest].bound

(* both sides resolve to one record: the same field names, the same row *)
SameRecord ==
    LET a == Resolve(pending.actual, type_bindings')
        e == Resolve(pending.expected, type_bindings')
    IN  /\ a.tag = "Struct"
        /\ e.tag = "Struct"
        /\ DOMAIN a.fields = DOMAIN e.fields
        /\ a.rest = e.rest

EqualFieldSets == DOMAIN pending.actual.fields = DOMAIN pending.expected.fields

(* C30: once the successful unification of Struct(F1, r1) with              *)
(* Struct(F2, r2) is committed, the two sides resolve, following the        *)
(* bindings of the cache, to the same field names and the same row          *)
(* variable, whether each side has fields the other lacks, one field set    *)
(* contains the other, or the field sets are equal.                         *)
C30_SameRecordAfterCommit == [][RecordsCommitted => SameRecord]_vars

(* the same for the field sets that differ: residual fields on both sides,  *)
(* or one set a superset of the other                                       *)
C30_SameRecordUnlessEqualFields ==
    [][RecordsCommitted /\ ~EqualFieldSets => SameRecord]_vars

----------------------------------------------------------------------------
(* The traversals with recursion fuel, call by call.  pending holds the    *)
(* traversal in progress: `calls` are the calls still to make, the next one *)
(* first, each with the type it is made on and the fuel it is handed.  The  *)
(* caches are chains of bound variables of any length up to MaxChain, and   *)
(* one cyclic cache.                                                        *)
MaxChain == 101

(* variables 2..n+1 are each bound to the next, variable n+2 is Unbound *)
ChainCache(n) ==
    [i \in 1..(n + 2) |->
        IF i = 1 \/ i = n + 2 THEN Unbound(INITIAL_LEVEL, "Normal")
        ELSE Bound(TypeVariable(i + 1))]

CyclicCache ==
    <<Unbound(INITIAL_LEVEL, "Normal"), Bound(T(TypeVariable(3))), Bound(TypeVariable(2)),
      Unbound(INITIAL_LEVEL, "Normal")>>

FuelTypes == {IntT, TypeVariable(2), NamedGeneric(2, "a"), T(TypeVariable(2)),
              Fn(IntT, TypeVariable(2)), RefT("Mutable", 2)}

InitFuel ==
    /\ type_bindings \in {ChainCache(n) : n \in 0..MaxChain} \cup {CyclicCache}
    /\ CURRENT_LEVEL = INITIAL_LEVEL
    /\ diagnostics = <<>>
    /\ visits = <<>>
    /\ rows = EmptyMap
    /\ pending = None
    /\ aborted = FALSE
    /\ ast = <<>>
    /\ definition_infos = <<>>
    /\ call_stack = <<>>
    /\ events = <<>>

Call(typ, fuel) == [typ |-> typ, fuel |-> fuel]
Calls(types, fuel) == [i \in DOMAIN types |-> Call(types[i], fuel)]

(* occurs(id, level, typ, bindings, RECURSION_LIMIT, cache), the bindings empty *)
Occurs(id, typ) ==
    /\ Idle
    /\ pending' = [kind |-> "occurs", id |-> id, typ |-> typ, panic |-> FALSE,
                   occurs |-> FALSE, vars |-> <<>>,
                   calls |-> <<Call(typ, RECURSION_LIMIT)>>]
    /\ UNCHANGED <<type_bindings, CURRENT_LEVEL, diagnostics, visits, rows, aborted>>
    /\ UNCHANGED ast_vars

(* find_all_typevars(typ, polymorphic_only, cache) *)
FindAllTypevars(typ, polymorphic_only) ==
    /\ Idle
    /\ pending' = [kind |-> "find_all_typevars", polymorphic_only |-> polymorphic_only,
                   typ |-> typ, panic |-> FALSE, occurs |-> FALSE, vars |-> <<>>,
                   calls |-> <<Call(typ, RECURSION_LIMIT)>>]
    /\ UNCHANGED <<type_bindings, CURRENT_LEVEL, diagnostics, visits, rows, aborted>>
    /\ UNCHANGED ast_vars

(* the traversal ends in a panic *)
Panic ==
    /\ pending' = [pending EXCEPT !.panic = TRUE, !.calls = <<>>]
    /\ aborted' = TRUE

(* the call returns after making the calls `more`, unless the needle was found *)
Called(more, found, vars_) ==
    /\ pending' = [pending EXCEPT !.occurs = found,
                                  !.vars = @ \o vars_,
                                  !.calls = IF found THEN <<>> ELSE more \o Tail(@)]
    /\ UNCHANGED aborted

(* typevars_match(needle, level, haystack, ..) and what follows it *)
TypevarsMatch(haystack, fuel, then) ==
    IF type_bindings[haystack].bound
    THEN Called(<<Call(type_bindings[haystack].typ, fuel)>> \o then, FALSE, <<>>)
    ELSE Called(then, pending.id = haystack, <<>>)

(* one call of occurs_helper *)
OccursHelper ==
    /\ ~aborted
    /\ pending.kind = "occurs"
    /\ pending.calls # <<>>
    /\ LET typ == pending.calls[1].typ
           fuel_ == pending.calls[1].fuel
           fuel == fuel_ - 1
       IN  IF fuel_ = 0 THEN Panic
           ELSE IF typ.tag \in {"Primitive", "UserDefined", "Tag"}
           THEN Called(<<>>, FALSE, <<>>)
           ELSE IF typ.tag \in {"TypeVariable", "NamedGeneric"}
           THEN TypevarsMatch(typ.id, fuel, <<>>)
           ELSE IF typ.tag = "Function"
           THEN Called(Calls(<<typ.return_type, typ.environment, typ.effects>>
                             \o typ.parameters, fuel), FALSE, <<>>)
           ELSE IF typ.tag = "TypeApplication"
           THEN Called(Calls(<<typ.constructor>> \o typ.args, fuel), FALSE, <<>>)
           ELSE IF typ.tag = "Ref"
           THEN Called(Calls(<<typ.mutability, typ.sharedness, typ.lifetime>>, fuel),
                       FALSE, <<>>)
           ELSE IF typ.tag = "Struct"
           THEN TypevarsMatch(typ.rest, fuel,
                    Calls([i \in 1..Len(FieldNames(typ.fields)) |->
                               typ.fields[FieldNames(typ.fields)[i]]], fuel))
           ELSE IF typ.extension = 0 THEN Called(<<>>, FALSE, <<>>)
           ELSE TypevarsMatch(typ.extension, fuel, <<>>)
    /\ UNCHANGED <<type_bindings, CURRENT_LEVEL, diagnostics, visits, rows>>
    /\ UNCHANGED ast_vars

(* find_typevars_in_typevar_binding(id, polymorphic_only, cache, fuel) and  *)
(* what follows it                                                          *)
FindTypevarsInTypevarBinding(id, fuel_, then) ==
    IF fuel_ = 0 THEN Panic
    ELSE IF type_bindings[id].bound
    THEN Called(<<Call(type_bindings[id].typ, fuel_ - 1)>> \o then, FALSE, <<>>)
    ELSE IF \/ ~pending.polymorphic_only
            \/ level_is_polymorphic(type_bindings[id].level, CURRENT_LEVEL)
    THEN Called(then, FALSE, <<id>>)
    ELSE Called(then, FALSE, <<>>)

(* one call of find_all_typevars_helper *)
FindAllTypevarsHelper ==
    /\ ~aborted
    /\ pending.kind = "find_all_typevars"
    /\ pending.calls # <<>>
    /\ LET typ == pending.calls[1].typ
           fuel == pending.calls[1].fuel
       IN  IF typ.tag \in {"Primitive", "UserDefined", "Tag"}
           THEN Called(<<>>, FALSE, <<>>)
           ELSE IF typ.tag \in {"TypeVariable", "NamedGeneric"}
           THEN FindTypevarsInTypevarBinding(typ.id, fuel, <<>>)
           ELSE IF typ.tag = "Function"
           THEN Called(Calls(typ.parameters
                             \o <<typ.environment, typ.return_type, typ.effects>>, fuel),
                       FALSE, <<>>)
           ELSE IF typ.tag = "TypeApplication"
           THEN Called(Calls(<<typ.constructor>> \o typ.args, fuel), FALSE, <<>>)
           ELSE IF typ.tag = "Ref"
           THEN Called(Calls(<<typ.mutability, typ.sharedness, typ.lifetime>>, fuel),
                       FALSE, <<>>)
           ELSE IF typ.tag = "Struct"
           THEN IF type_bindings[typ.rest].bound
                THEN Called(<<Call(type_bindings[typ.rest].typ, fuel)>>, FALSE, <<>>)
                ELSE FindTypevarsInTypevarBinding(typ.rest, fuel,
                         Calls([i \in 1..Len(FieldNames(typ.fields)) |->
                                    typ.fields[FieldNames(typ.fields)[i]]], fuel))
           ELSE IF typ.extension = 0 THEN Called(<<>>, FALSE, <<>>)
           ELSE FindTypevarsInTypevarBinding(typ.extension, fuel, <<>>)
    /\ UNCHANGED <<type_bindings, CURRENT_LEVEL, diagnostics, visits, rows>>
    /\ UNCHANGED ast_vars

(* the caller drops what the traversal returned *)
TraversalReturn ==
    /\ pending.kind \in {"occurs", "find_all_typevars"}
    /\ pending.calls = <<>>
    /\ Discard

NextFuel ==
    \/ \E typ \in FuelTypes : Occurs(Len(type_bindings), typ)
    \/ \E typ \in FuelTypes, polymorphic_only \in BOOLEAN :
           FindAllTypevars(typ, polymorphic_only)
    \/ OccursHelper
    \/ FindAllTypevarsHelper
    \/ TraversalReturn

SpecFuel == InitFuel /\ [][NextFuel]_vars

----------------------------------------------------------------------------
(* Recursion fuel *)

Panicked == pending.kind \in {"occurs", "find_all_typevars"} /\ pending.panic

(* C25: occurs and find_all_typevars run out of fuel only when the bindings *)
(* of the cache contain a cycle: on an acyclic cache they return, whatever  *)
(* the nesting of the type and the length of the chain of bound variables.  *)
C25_FuelExhaustionSignalsCycle == Panicked => ~Acyclic(type_bindings)

(* the bound variables a chain leads through, from variable 2 *)
ChainLength == Cardinality({id \in DOMAIN type_bindings : type_bindings[id].bound})

(* on an acyclic cache the traversals run out of fuel only on a chain of    *)
(* RECURSION_LIMIT bound variables or more, less the nesting of the type    *)
C25_FuelSufficesBelowLimit ==
    Panicked /\ Acyclic(type_bindings) => ChainLength + 2 > RECURSION_LIMIT

(* a traversal of a chain of RECURSION_LIMIT - 2 bound variables has returned *)
C25_Returned ==
    /\ pending.kind \in {"occurs", "find_all_typevars"}
    /\ pending.calls = <<>>
    /\ ~pending.panic
    /\ ChainLength = RECURSION_LIMIT - 2

----------------------------------------------------------------------------
(* The traversals that follow the bindings of the cache, each applied once  *)
(* to the types TraversalTypes over the caches TraversalCaches.             *)
MaxTraversalVars == 9

RECURSIVE contains_any_typevars_from_list(_, _, _)
RECURSIVE contains_any_in(_, _, _, _)

type_variable_contains_any_typevars_from_list(id, list, cache) ==
    IF cache[id].bound THEN contains_any_typevars_from_list(cache[id].typ, list, cache)
    ELSE \E i \in DOMAIN list : list[i] = id

(* types.iter().any(|t| contains_any_typevars_from_list(t, list, cache)) *)
contains_any_in(types, i, list, cache) ==
    /\ i <= Len(types)
    /\ \/ contains_any_typevars_from_list(types[i], list, cache)
       \/ contains_any_in(types, i + 1, list, cache)

contains_any_typevars_from_list(typ, list, cache) ==
    IF typ.tag \in {"Primitive", "UserDefined", "Tag"} THEN FALSE
    ELSE IF typ.tag \in {"TypeVariable", "NamedGeneric"}
    THEN type_variable_contains_any_typevars_from_list(typ.id, list, cache)
    ELSE IF typ.tag = "Function"
    THEN contains_any_in(typ.parameters
                         \o <<typ.return_type, typ.environment, typ.effects>>, 1, list, cache)
    ELSE IF typ.tag = "Ref"
    THEN contains_any_in(<<typ.mutability, typ.sharedness, typ.lifetime>>, 1, list, cache)
    ELSE IF typ.tag = "TypeApplication"
    THEN contains_any_in(<<typ.constructor>> \o typ.args, 1, list, cache)
    ELSE IF typ.tag = "Struct"
    THEN \/ type_variable_contains_any_typevars_from_list(typ.rest, list, cache)
         \/ contains_any_in([i \in 1..Len(FieldNames(typ.fields)) |->
                                 typ.fields[FieldNames(typ.fields)[i]]], 1, list, cache)
    ELSE /\ typ.extension # 0
         /\ type_variable_contains_any_typevars_from_list(typ.extension, list, cache)

(* what a replacement returns: the type, with new_bindings and the cache as it left them *)
Replaced(typ, new_bindings, cache) ==
    [typ |-> typ, new_bindings |-> new_bindings, cache |-> cache]

RECURSIVE replace_all_typevars_with_bindings(_, _, _, _)
RECURSIVE replace_all_in(_, _, _, _, _, _)
RECURSIVE replace_all_after(_, _, _, _, _)

replace_typevar_with_binding(id, new_bindings, cache, current_level) ==
    IF cache[id].bound
    THEN replace_all_typevars_with_bindings(cache[id].typ, new_bindings, cache, current_level)
    ELSE IF id \in DOMAIN new_bindings THEN Replaced(new_bindings[id], new_bindings, cache)
    ELSE Replaced(TypeVariable(Len(cache) + 1),
                  MapInsert(new_bindings, id, TypeVariable(Len(cache) + 1)),
                  next_type_variable_id(cache, current_level))

(* fmap(types, |typ| replace_all_typevars_with_bindings(typ, new_bindings, cache)): *)
(* the types replaced so far are `done`                                             *)
replace_all_in(types, i, done, new_bindings, cache, current_level) ==
    IF i > Len(types) THEN Replaced(done, new_bindings, cache)
    ELSE replace_all_after(types, i, done, current_level,
             replace_all_typevars_with_bindings(types[i], new_bindings, cache, current_level))

replace_all_after(types, i, done, current_level, r) ==
    replace_all_in(types, i + 1, Append(done, r.typ), r.new_bindings, r.cache, current_level)

(* the Function arm, r.typ the parameters, return type, environment and effects replaced *)
replace_function(function, r) ==
    Replaced(Function(SubSeq(r.typ, 1, Len(function.parameters)),
                      r.typ[Len(function.parameters) + 1],
                      r.typ[Len(function.parameters) + 2],
                      r.typ[Len(function.parameters) + 3],
                      function.has_varargs),
             r.new_bindings, r.cache)

replace_ref(r) == Replaced(Ref(r.typ[1], r.typ[2], r.typ[3]), r.new_bindings, r.cache)

replace_type_application(r) ==
    Replaced(TypeApplication(r.typ[1], Tail(r.typ)), r.new_bindings, r.cache)

(* the Struct arm for a row that is Unbound and not in new_bindings, r.typ the fields replaced *)
replace_struct(fields, id, r) ==
    Replaced(Struct([n \in DOMAIN fields |->
                         r.typ[CHOOSE i \in 1..Len(FieldNames(fields)) :
                                   FieldNames(fields)[i] = n]], id),
             r.new_bindings, r.cache)

replace_all_typevars_with_bindings(typ, new_bindings, cache, current_level) ==
    IF typ.tag \in {"Primitive", "Tag", "UserDefined"} THEN Replaced(typ, new_bindings, cache)
    ELSE IF typ.tag \in {"TypeVariable", "NamedGeneric"}
    THEN replace_typevar_with_binding(typ.id, new_bindings, cache, current_level)
    ELSE IF typ.tag = "Function"
    THEN replace_function(typ,
             replace_all_in(typ.parameters \o <<typ.return_type, typ.environment, typ.effects>>,
                            1, <<>>, new_bindings, cache, current_level))
    ELSE IF typ.tag = "Ref"
    THEN replace_ref(replace_all_in(<<typ.mutability, typ.sharedness, typ.lifetime>>,
                                    1, <<>>, new_bindings, cache, current_level))
    ELSE IF typ.tag = "TypeApplication"
    THEN replace_type_application(
             replace_all_in(<<typ.constructor>> \o typ.args, 1, <<>>, new_bindings, cache,
                            current_level))
    ELSE IF typ.tag = "Struct"
    THEN IF cache[typ.rest].bound
         THEN replace_all_typevars_with_bindings(cache[typ.rest].typ, new_bindings, cache,
                                                 current_level)
         ELSE IF typ.rest \in DOMAIN new_bindings
         THEN Replaced(new_bindings[typ.rest], new_bindings, cache)
         ELSE replace_struct(typ.fields, typ.rest,
                  replace_all_in([i \in 1..Len(FieldNames(typ.fields)) |->
                                      typ.fields[FieldNames(typ.fields)[i]]],
                                 1, <<>>, new_bindings, cache, current_level))
    ELSE Replaced(typ, new_bindings, cache)

(* replace_all_typevars(types, cache) *)
replace_all_typevars(types, cache, current_level) ==
    replace_all_in(types, 1, <<>>, EmptyMap, cache, current_level)

TraversalCaches ==
    LET U(level) == Unbound(level, "Normal")
        x == [x |-> TypeVariable(4)]
        xy == [x |-> TypeVariable(4), y |-> BoolT]
    IN  {[cache |-> <<U(1), U(1), Bound(IntT), Bound(TypeVariable(2)),
                      Bound(NamedGeneric(2, "a")), U(2)>>,
          rows |-> EmptyMap],
         [cache |-> <<U(1), U(1), Bound(Struct(xy, 5)), U(1), U(1)>>,
          rows |-> [r \in {2, 3, 5} |-> IF r = 5 THEN xy ELSE x]]}

TraversalTypes(cache, rows_) ==
    LET V== (InferenceVars(cache) \ DOMAIN rows_) IN
    {IntT}
    \cup {TypeVariable(v) : v \in V}
    \cup {NamedGeneric(v, "a") : v \in V}
    \cup {Fn(TypeVariable(v), TypeVariable(w)) : v, w \in V}
    \cup {RefT("Mutable", v) : v \in V}
    \cup {Struct(rows_[r], r) : r \in DOMAIN rows_}
    \cup {T(Struct(rows_[r], r)) : r \in DOMAIN rows_}

(* the mappings handed to bind_typevars: no binding names a Bound variable *)
TraversalMappings(cache, rows_) ==
    LET unbound == {v \in InferenceVars(cache) : ~cache[v].bound}
    IN  {EmptyMap}
        \cup {MapInsert(EmptyMap, v, IntT) : v \in InferenceVars(cache)}
        \cup {MapInsert(EmptyMap, v, TypeVariable(u)) :
                  v \in InferenceVars(cache), u \in unbound \ DOMAIN rows_}

InitTraversals ==
    /\ \E c \in TraversalCaches : type_bindings = c.cache /\ rows = c.rows
    /\ CURRENT_LEVEL = INITIAL_LEVEL
    /\ diagnostics = <<>>
    /\ visits = <<>>
    /\ pending = None
    /\ aborted = FALSE
    /\ ast = <<>>
    /\ definition_infos = <<>>
    /\ call_stack = <<>>
    /\ events = <<>>

(* the caller holds what a traversal that leaves the cache alone returned *)
Traversed(kind, typ, argument, result) ==
    /\ Idle
    /\ pending' = [kind |-> kind, typ |-> typ, argument |-> argument, result |-> result]
    /\ UNCHANGED <<type_bindings, CURRENT_LEVEL, diagnostics, visits, rows, aborted>>
    /\ UNCHANGED ast_vars

BindTypevars(typ, type_bindings_) ==
    Traversed("bind_typevars", typ, type_bindings_,
              bind_typevars(typ, type_bindings_, type_bindings))

FollowBindingsInCache(typ) ==
    Traversed("follow_bindings_in_cache", typ, <<>>,
              follow_bindings_in_cache(typ, type_bindings))

ContainsAnyTypevarsFromList(typ, list) ==
    Traversed("contains_any_typevars_from_list", typ, list,
              contains_any_typevars_from_list(typ, list, type_bindings))

(* replace_all_typevars, or a later replace_all_typevars_with_bindings over *)
(* the new_bindings the caller holds, `given`                               *)
ReplacedAll(types, given, r) ==
    /\ Len(r.cache) <= MaxTraversalVars
    /\ type_bindings' = r.cache
    /\ pending' = [kind |-> "replace_all_typevars", typ |-> types, given |-> given,
                   result |-> r.typ, new_bindings |-> r.new_bindings]
    /\ UNCHANGED <<CURRENT_LEVEL, diagnostics, visits, rows, aborted>>
    /\ UNCHANGED ast_vars

ReplaceAllTypevars(types) ==
    /\ Idle
    /\ ReplacedAll(types, EmptyMap, replace_all_typevars(types, type_bindings, CURRENT_LEVEL))

ReplaceAllTypevarsWithBindings(typ) ==
    /\ ~aborted
    /\ pending.kind = "replace_all_typevars"
    /\ pending.given = EmptyMap
    /\ pending.new_bindings # EmptyMap
    /\ ReplacedAll(<<typ>>, pending.new_bindings,
                   replace_all_in(<<typ>>, 1, <<>>, pending.new_bindings, type_bindings,
                                  CURRENT_LEVEL))

NextTraversals ==
    \/ \E typ \in TraversalTypes(type_bindings, rows),
          type_bindings_ \in TraversalMappings(type_bindings, rows) :
           BindTypevars(typ, type_bindings_)
    \/ \E typ \in TraversalTypes(type_bindings, rows) : FollowBindingsInCache(typ)
    \/ \E typ \in TraversalTypes(type_bindings, rows), id \in InferenceVars(type_bindings) :
           ContainsAnyTypevarsFromList(typ, <<id>>)
    \/ \E typ \in TraversalTypes(type_bindings, rows), polymorphic_only \in BOOLEAN :
           FindAllTypevars(typ, polymorphic_only)
    \/ FindAllTypevarsHelper
    \/ \E typ \in TraversalTypes(type_bindings, rows) : ReplaceAllTypevars(<<typ>>)
    \/ \E typ \in TraversalTypes(type_bindings, rows) : ReplaceAllTypevarsWithBindings(typ)
    \/ Discard

SpecTraversals == InitTraversals /\ [][NextTraversals]_vars

----------------------------------------------------------------------------
(* Bindings followed *)

BoundIn(ids, cache) == {id \in ids : cache[id].bound}

(* the ids a type names as a type variable, a row or an extension, the     *)
(* named generics left out                                                  *)
RECURSIVE VariablesOf(_)
VariablesOf(typ) ==
    IF typ.tag \in {"Primitive", "UserDefined", "Tag", "NamedGeneric"} THEN {}
    ELSE IF typ.tag = "TypeVariable" THEN {typ.id}
    ELSE IF typ.tag = "Function"
    THEN UNION {VariablesOf(typ.parameters[i]) : i \in DOMAIN typ.parameters}
         \cup VariablesOf(typ.return_type) \cup VariablesOf(typ.environment)
         \cup VariablesOf(typ.effects)
    ELSE IF typ.tag = "TypeApplication"
    THEN VariablesOf(typ.constructor)
         \cup UNION {VariablesOf(typ.args[i]) : i \in DOMAIN typ.args}
    ELSE IF typ.tag = "Ref"
    THEN VariablesOf(typ.mutability) \cup VariablesOf(typ.sharedness)
         \cup VariablesOf(typ.lifetime)
    ELSE IF typ.tag = "Struct"
    THEN {typ.rest} \cup UNION {VariablesOf(typ.fields[n]) : n \in DOMAIN typ.fields}
    ELSE {typ.extension} \ {0}

(* the variable a type is at its top: the type variable, the named generic, the row *)
TopVariable(typ) ==
    IF typ.tag \in {"TypeVariable", "NamedGeneric"} THEN {typ.id}
    ELSE IF typ.tag = "Struct" THEN {typ.rest}
    ELSE {}

(* find_all_typevars and contains_any_typevars_from_list report only        *)
(* variables that are Unbound                                               *)
ReportsUnbound ==
    /\ pending.kind = "find_all_typevars" =>
           \A i \in DOMAIN pending.vars : ~type_bindings[pending.vars[i]].bound
    /\ pending.kind = "contains_any_typevars_from_list" =>
           (pending.result <=>
                \E i \in DOMAIN pending.argument :
                    pending.argument[i] \in FreeVars(pending.typ, type_bindings))

(* C26: what bind_typevars returns, for the empty mapping or any other,     *)
(* names no type variable, named generic or row that is Bound in the cache, *)
(* and what follow_bindings_in_cache returns is none of these;              *)
(* find_all_typevars and contains_any_typevars_from_list report only        *)
(* Unbound variables.                                                       *)
C26_BindingsFollowed ==
    /\ pending.kind = "bind_typevars" =>
           BoundIn(TypeVarsOf(pending.result), type_bindings) = {}
    /\ pending.kind = "follow_bindings_in_cache" =>
           BoundIn(TopVariable(pending.result), type_bindings) = {}
    /\ ReportsUnbound

(* the same with the named generics set aside, and for                      *)
(* follow_bindings_in_cache the type variables alone                        *)
C26_TypeVariablesFollowed ==
    /\ pending.kind = "bind_typevars" =>
           BoundIn(VariablesOf(pending.result), type_bindings) = {}
    /\ pending.kind = "follow_bindings_in_cache" /\ pending.result.tag = "TypeVariable" =>
           ~type_bindings[pending.result.id].bound
    /\ ReportsUnbound

----------------------------------------------------------------------------
(* Every variable replaced *)

ReplaceStep == pending' # pending /\ pending'.kind = "replace_all_typevars"

(* the Unbound variables reachable in the types handed in *)
InputVariables ==
    UNION {FreeVars(pending'.typ[i], type_bindings) : i \in DOMAIN pending'.typ}

MintedBy == (Len(type_bindings) + 1)..Len(type_bindings')

(* a type with every binding of the cache followed and every variable that *)
(* new_bindings records replaced by what it records                         *)
RECURSIVE Substituted(_, _, _)
Substituted(typ, new, cache) ==
    IF typ.tag \in {"TypeVariable", "NamedGeneric"}
    THEN IF cache[typ.id].bound THEN Substituted(cache[typ.id].typ, new, cache)
         ELSE IF typ.id \in DOMAIN new THEN new[typ.id] ELSE typ
    ELSE IF typ.tag = "Function"
    THEN Function([i \in DOMAIN typ.parameters |-> Substituted(typ.parameters[i], new, cache)],
                  Substituted(typ.return_type, new, cache),
                  Substituted(typ.environment, new, cache),
                  Substituted(typ.effects, new, cache), typ.has_varargs)
    ELSE IF typ.tag = "TypeApplication"
    THEN TypeApplication(Substituted(typ.constructor, new, cache),
                         [i \in DOMAIN typ.args |-> Substituted(typ.args[i], new, cache)])
    ELSE IF typ.tag = "Ref"
    THEN Ref(Substituted(typ.mutability, new, cache), Substituted(typ.sharedness, new, cache),
             Substituted(typ.lifetime, new, cache))
    ELSE IF typ.tag = "Struct"
    THEN IF cache[typ.rest].bound THEN Substituted(cache[typ.rest].typ, new, cache)
         ELSE Struct([n \in DOMAIN typ.fields |-> Substituted(typ.fields[n], new, cache)],
                     IF typ.rest \in DOMAIN new /\ new[typ.rest].tag = "TypeVariable"
                     THEN new[typ.rest].id ELSE typ.rest)
    ELSE IF typ.tag = "Effects" /\ typ.extension # 0
    THEN IF cache[typ.extension].bound THEN Substituted(cache[typ.extension].typ, new, cache)
         ELSE IF typ.extension \in DOMAIN new /\ new[typ.extension].tag = "TypeVariable"
         THEN Effects(typ.effects, new[typ.extension].id) ELSE typ
    ELSE typ

(* the types returned name none of `variables`, but as a replacement an    *)
(* earlier call recorded; new_bindings keeps what it                        *)
(* was given and records, for each of `variables` it lacked, a variable of   *)
(* its own minted by the call; every occurrence is replaced by what          *)
(* new_bindings records; a Struct stays a Struct of the same field names     *)
EveryVariableReplaced(variables) ==
    LET new == pending'.new_bindings
        given == pending'.given
    IN  /\ \A i \in DOMAIN pending'.result :
               TypeVarsOf(pending'.result[i]) \cap variables \subseteq
                   {given[v].id : v \in {w \in DOMAIN given : given[w].tag = "TypeVariable"}}
        /\ \A v \in DOMAIN given : v \in DOMAIN new /\ new[v] = given[v]
        /\ \A v \in variables \ DOMAIN given :
               /\ v \in DOMAIN new
               /\ new[v].tag = "TypeVariable"
               /\ new[v].id \in MintedBy
        /\ \A v, w \in (DOMAIN new) \ DOMAIN given : v # w => new[v] # new[w]
        /\ \A i \in DOMAIN pending'.typ :
               /\ pending'.result[i] = Substituted(pending'.typ[i], new, type_bindings)
               /\ Resolve(pending'.typ[i], type_bindings).tag = "Struct" =>
                      /\ pending'.result[i].tag = "Struct"
                      /\ DOMAIN pending'.result[i].fields =
                             DOMAIN Resolve(pending'.typ[i], type_bindings).fields

(* C27: replace_all_typevars_with_bindings returns a type that names none   *)
(* of the Unbound variables reachable in its input, type variables, named   *)
(* generics and rows alike; a variable is replaced by the same variable at  *)
(* every occurrence and in every call over the same new_bindings; a         *)
(* variable new_bindings lacks gets a newly minted one, recorded there; the *)
(* fields of a Struct are kept, substituted.                                *)
C27_EveryVariableReplaced == [][ReplaceStep => EveryVariableReplaced(InputVariables)]_vars

(* the same for the variables that are not the row of a Struct *)
C27_EveryVariableButRowsReplaced ==
    [][ReplaceStep => EveryVariableReplaced(InputVariables \ DOMAIN rows)]_vars

=============================================================================
